---- MODULE Spec2Model ----
(***************************************************************************)
(* Feature flag evaluation engine of FeatureManagement-Go: the condition   *)
(* evaluator (FeatureManager.isEnabled), the targeting filter, the flag    *)
(* validation and the evaluation orchestrator (evaluateFeature), driven    *)
(* through IsEnabled / IsEnabledWithAppContext / OnFeatureEvaluated.       *)
(*                                                                         *)
(* Encoding.  A Go pointer is a sequence of length at most one: <<>> is    *)
(* nil, <<v>> points to v.  A Go error is a sequence of messages: <<>> is  *)
(* the nil error and fmt.Errorf("...: %w", err) puts a message in front of *)
(* the chain it wraps.  A value of type any carries its dynamic type in    *)
(* the field "kind".  Percentages are integers (the flags of the model use *)
(* whole percentages), and a uint32 is kept as two 16-bit halves so that   *)
(* no intermediate value leaves the range of TLC's integers.               *)
(***************************************************************************)
EXTENDS Integers, Sequences, FiniteSets, TLC

VARIABLES
    featureFlags,       \* the provider's flag list (FeatureFlagProvider.featureFlags)
    featureFilters,     \* FeatureManager.featureFilters: filter name -> implementation
    onFeatureEvaluated, \* FeatureManager.onFeatureEvaluated: registered callbacks, in order
    now,                \* the wall clock read by time.Now()
    ret,                \* what the last call returned to its caller
    trace               \* what the last call did: filters invoked, callbacks invoked

vars == <<featureFlags, featureFilters, onFeatureEvaluated, now, ret, trace>>

----------------------------------------------------------------------------
(* Pointers and errors *)

Nil == <<>>
Ptr(v) == <<v>>
Deref(p) == p[1]

NoErr == <<>>
Errorf(msg) == <<msg>>
Wrap(msg, err) == <<msg>> \o err

Range(s) == {s[i] : i \in 1..Len(s)}

Min(S) == CHOOSE m \in S : \A n \in S : m <= n

\* all sequences over S of length at most n
RECURSIVE SeqsUpTo(_, _)
SeqsUpTo(S, n) ==
    IF n = 0 THEN {<<>>}
    ELSE LET shorter == SeqsUpTo(S, n - 1)
         IN shorter \cup {Append(s, e) : s \in {t \in shorter : Len(t) = n - 1}, e \in S}

----------------------------------------------------------------------------
(* schema.go: the enumerations *)

RequirementTypeAny == "Any"
RequirementTypeAll == "All"

StatusOverrideNone == "None"
StatusOverrideEnabled == "Enabled"
StatusOverrideDisabled == "Disabled"

VariantAssignmentReasonNone == "None"
VariantAssignmentReasonDefaultWhenDisabled == "DefaultWhenDisabled"
VariantAssignmentReasonDefaultWhenEnabled == "DefaultWhenEnabled"
VariantAssignmentReasonUser == "User"
VariantAssignmentReasonGroup == "Group"
VariantAssignmentReasonPercentile == "Percentile"

----------------------------------------------------------------------------
(* validateFeatureFlag and its helpers *)

validateConditions(id, conditions) ==
    IF /\ conditions.RequirementType # ""
       /\ conditions.RequirementType # RequirementTypeAny
       /\ conditions.RequirementType # RequirementTypeAll
    THEN Errorf("requirement_type must be 'Any' or 'All'")
    ELSE IF \E i \in 1..Len(conditions.ClientFilters) : conditions.ClientFilters[i].Name = ""
    THEN Errorf("client filter missing name")
    ELSE NoErr

validateVariantsDefinition(id, variants) ==
    LET bad(i) == \/ variants[i].Name = ""
                  \/ /\ variants[i].StatusOverride # ""
                     /\ variants[i].StatusOverride # StatusOverrideNone
                     /\ variants[i].StatusOverride # StatusOverrideEnabled
                     /\ variants[i].StatusOverride # StatusOverrideDisabled
        badIdx == {i \in 1..Len(variants) : bad(i)}
    IN IF badIdx = {} THEN NoErr
       ELSE IF variants[Min(badIdx)].Name = ""
       THEN Errorf("variant missing name")
       ELSE Errorf("variant status_override must be 'None', 'Enabled', or 'Disabled'")

validateAllocation(id, allocation) ==
    LET badP(i) == LET p == allocation.Percentile[i]
                   IN p.Variant = "" \/ p.From < 0 \/ p.From > 100 \/ p.To < 0 \/ p.To > 100
        badPIdx == {i \in 1..Len(allocation.Percentile) : badP(i)}
        badU(i) == allocation.User[i].Variant = "" \/ Len(allocation.User[i].Users) = 0
        badUIdx == {i \in 1..Len(allocation.User) : badU(i)}
        badG(i) == allocation.Group[i].Variant = "" \/ Len(allocation.Group[i].Groups) = 0
        badGIdx == {i \in 1..Len(allocation.Group) : badG(i)}
    IN IF badPIdx # {} THEN
            LET p == allocation.Percentile[Min(badPIdx)]
            IN IF p.Variant = "" THEN Errorf("percentile allocation missing variant")
               ELSE IF p.From < 0 \/ p.From > 100
               THEN Errorf("percentile 'from' must be between 0 and 100")
               ELSE Errorf("percentile 'to' must be between 0 and 100")
       ELSE IF badUIdx # {} THEN
            IF allocation.User[Min(badUIdx)].Variant = ""
            THEN Errorf("user allocation missing variant")
            ELSE Errorf("user allocation has empty users list")
       ELSE IF badGIdx # {} THEN
            IF allocation.Group[Min(badGIdx)].Variant = ""
            THEN Errorf("group allocation missing variant")
            ELSE Errorf("group allocation has empty groups list")
       ELSE NoErr

\* validateFeatureFlag without the validation of the allocation
validateFeatureFlagWithoutAllocation(flag) ==
    IF flag.ID = "" THEN Errorf("feature flag ID is required")
    ELSE IF flag.Conditions # Nil
            /\ validateConditions(flag.ID, Deref(flag.Conditions)) # NoErr
    THEN validateConditions(flag.ID, Deref(flag.Conditions))
    ELSE IF Len(flag.Variants) > 0
    THEN validateVariantsDefinition(flag.ID, flag.Variants)
    ELSE NoErr

\* validateFeatureFlag: the first error of the ID, the conditions, the variants
\* and the allocation
validateFeatureFlag(flag) ==
    IF flag.ID = "" THEN Errorf("feature flag ID is required")
    ELSE LET e1 == IF flag.Conditions # Nil
                   THEN validateConditions(flag.ID, Deref(flag.Conditions)) ELSE NoErr
             e2 == IF Len(flag.Variants) > 0
                   THEN validateVariantsDefinition(flag.ID, flag.Variants) ELSE NoErr
             e3 == IF flag.Allocation # Nil
                   THEN validateAllocation(flag.ID, Deref(flag.Allocation)) ELSE NoErr
         IN IF e1 # NoErr THEN e1
            ELSE IF e2 # NoErr THEN e2
            ELSE e3

----------------------------------------------------------------------------
(* targeting.go: the percentile hasher and the audience matcher *)

\* sha256.Sum256([]byte(s))[:4]: the first four bytes of the SHA-256 digest of
\* every audience context id the flags and the contexts of the model can form
sha256Sum(s) ==
    CASE s = "\nComplexTargeting" -> <<51, 16, 169, 99>>
      [] s = "\nComplexTargeting\nStage1" -> <<72, 38, 53, 32>>
      [] s = "\nComplexTargeting\nStage2" -> <<145, 79, 151, 201>>
      [] s = "\nComplexTargeting\nStage3" -> <<243, 203, 10, 49>>
      [] s = "\nallocation\nComplexTargeting" -> <<255, 81, 11, 158>>
      [] s = "\n1234" -> <<85, 186, 134, 238>>
      [] s = "\n12345" -> <<239, 225, 224, 24>>
      [] s = "Alice\nComplexTargeting" -> <<136, 140, 229, 203>>
      [] s = "Alice\nComplexTargeting\nStage1" -> <<135, 102, 94, 181>>
      [] s = "Alice\nComplexTargeting\nStage2" -> <<43, 183, 240, 81>>
      [] s = "Alice\nComplexTargeting\nStage3" -> <<102, 215, 101, 1>>
      [] s = "Alice\nallocation\nComplexTargeting" -> <<158, 146, 181, 120>>
      [] s = "Alice\n1234" -> <<216, 156, 250, 229>>
      [] s = "Alice\n12345" -> <<162, 167, 41, 252>>
      [] s = "Dave\nComplexTargeting" -> <<57, 122, 140, 145>>
      [] s = "Dave\nComplexTargeting\nStage1" -> <<164, 208, 1, 215>>
      [] s = "Dave\nComplexTargeting\nStage2" -> <<115, 149, 63, 239>>
      [] s = "Dave\nComplexTargeting\nStage3" -> <<154, 203, 204, 91>>
      [] s = "Dave\nallocation\nComplexTargeting" -> <<190, 85, 244, 37>>
      [] s = "Dave\n1234" -> <<8, 76, 201, 171>>
      [] s = "Dave\n12345" -> <<154, 29, 77, 20>>
      [] s = "Aiden\nComplexTargeting" -> <<124, 238, 24, 161>>
      [] s = "Aiden\nComplexTargeting\nStage1" -> <<89, 50, 25, 249>>
      [] s = "Aiden\nComplexTargeting\nStage2" -> <<26, 78, 36, 40>>
      [] s = "Aiden\nComplexTargeting\nStage3" -> <<54, 193, 37, 174>>
      [] s = "Aiden\nallocation\nComplexTargeting" -> <<221, 116, 164, 7>>
      [] s = "Aiden\n1234" -> <<5, 30, 159, 67>>
      [] s = "Aiden\n12345" -> <<188, 86, 147, 28>>
      [] s = "Blossom\nComplexTargeting" -> <<32, 242, 206, 51>>
      [] s = "Blossom\nComplexTargeting\nStage1" -> <<15, 115, 218, 72>>
      [] s = "Blossom\nComplexTargeting\nStage2" -> <<151, 166, 179, 130>>
      [] s = "Blossom\nComplexTargeting\nStage3" -> <<22, 109, 106, 104>>
      [] s = "Blossom\nallocation\nComplexTargeting" -> <<180, 153, 26, 18>>
      [] s = "Blossom\n1234" -> <<90, 217, 156, 148>>
      [] s = "Blossom\n12345" -> <<60, 74, 238, 14>>
      [] s = "Chris\nComplexTargeting" -> <<40, 33, 83, 185>>
      [] s = "Chris\nComplexTargeting\nStage1" -> <<52, 194, 136, 70>>
      [] s = "Chris\nComplexTargeting\nStage2" -> <<218, 101, 160, 141>>
      [] s = "Chris\nComplexTargeting\nStage3" -> <<245, 116, 196, 229>>
      [] s = "Chris\nallocation\nComplexTargeting" -> <<191, 249, 47, 199>>
      [] s = "Chris\n1234" -> <<212, 82, 161, 186>>
      [] s = "Chris\n12345" -> <<147, 160, 120, 101>>
      [] s = "Marsha\nComplexTargeting" -> <<39, 79, 161, 159>>
      [] s = "Marsha\nComplexTargeting\nStage1" -> <<45, 228, 71, 41>>
      [] s = "Marsha\nComplexTargeting\nStage2" -> <<127, 226, 100, 126>>
      [] s = "Marsha\nComplexTargeting\nStage3" -> <<153, 126, 41, 250>>
      [] s = "Marsha\nallocation\nComplexTargeting" -> <<90, 245, 15, 236>>
      [] s = "Marsha\n1234" -> <<29, 32, 220, 65>>
      [] s = "Marsha\n12345" -> <<35, 62, 144, 215>>
      [] s = "user2011583494\nComplexTargeting" -> <<255, 255, 255, 255>>
      [] s = "user2011583494\nComplexTargeting\nStage1" -> <<160, 245, 44, 11>>
      [] s = "user2011583494\nComplexTargeting\nStage2" -> <<72, 251, 97, 231>>
      [] s = "user2011583494\nComplexTargeting\nStage3" -> <<14, 255, 178, 165>>
      [] s = "user2011583494\nallocation\nComplexTargeting" -> <<242, 22, 213, 206>>
      [] s = "user2011583494\n1234" -> <<207, 244, 235, 159>>
      [] s = "user2011583494\n12345" -> <<169, 21, 87, 231>>
      [] s = "user2104546143\nComplexTargeting" -> <<51, 51, 51, 51>>
      [] s = "user2104546143\nComplexTargeting\nStage1" -> <<185, 46, 90, 158>>
      [] s = "user2104546143\nComplexTargeting\nStage2" -> <<252, 220, 235, 168>>
      [] s = "user2104546143\nComplexTargeting\nStage3" -> <<9, 79, 120, 109>>
      [] s = "user2104546143\nallocation\nComplexTargeting" -> <<112, 151, 117, 107>>
      [] s = "user2104546143\n1234" -> <<169, 177, 182, 160>>
      [] s = "user2104546143\n12345" -> <<170, 240, 1, 2>>

\* binary.LittleEndian.Uint32: byte 1 is the least significant; the value is
\* hi * 65536 + lo
LittleEndianUint32(b) == [hi |-> b[4] * 256 + b[3], lo |-> b[2] * 256 + b[1]]

hashStringToUint32(s) == LittleEndianUint32(sha256Sum(s))

constructAudienceContextID(userID, hint) == userID \o "\n" \o hint

\* the two halves of math.MaxUint32
MaxUint32Hi == 65535
MaxUint32Lo == 65535

\* the comparison with the marker divided by 2^32 instead of math.MaxUint32
contextPercentageAtLeastOfTwoTo32(contextMarker, p) ==
    LET lLo == contextMarker.lo * 100
        lHi == contextMarker.hi * 100 + (lLo \div 65536)
    IN \/ lHi > p * 65536
       \/ lHi = p * 65536 /\ (lLo % 65536) >= 0

\* (float64(contextMarker) / float64(math.MaxUint32)) * 100 >= p, decided
\* exactly as contextMarker * 100 >= p * math.MaxUint32 on the 16-bit halves
contextPercentageAtLeast(contextMarker, p) ==
    LET lLo == contextMarker.lo * 100
        lHi == contextMarker.hi * 100 + (lLo \div 65536)
        rLo == p * MaxUint32Lo
        rHi == p * MaxUint32Hi + (rLo \div 65536)
    IN \/ lHi > rHi
       \/ lHi = rHi /\ (lLo % 65536) >= (rLo % 65536)

\* the range check with every upper bound treated as 100
isInPercentileRangeOpenAbove(contextMarker, from, to) ==
    contextPercentageAtLeast(contextMarker, from)

\* the range check of isTargetedPercentile on the hashed context
isInPercentileRange(contextMarker, from, to) ==
    IF to = 100
    THEN contextPercentageAtLeast(contextMarker, from)
    ELSE /\ contextPercentageAtLeast(contextMarker, from)
         /\ ~contextPercentageAtLeast(contextMarker, to)

isTargetedPercentile(userID, hint, from, to) ==
    IF from < 0 \/ from > 100
    THEN [ok |-> FALSE, err |-> Errorf("the 'from' value must be between 0 and 100")]
    ELSE IF to < 0 \/ to > 100
    THEN [ok |-> FALSE, err |-> Errorf("the 'to' value must be between 0 and 100")]
    ELSE IF from > to
    THEN [ok |-> FALSE, err |-> Errorf("the 'from' value cannot be larger than the 'to' value")]
    ELSE [ok |-> isInPercentileRange(
                    hashStringToUint32(constructAudienceContextID(userID, hint)), from, to),
          err |-> NoErr]

isTargetedGroup(sourceGroups, targetedGroups) ==
    IF Len(sourceGroups) = 0 THEN FALSE
    ELSE \E i \in 1..Len(sourceGroups) : \E j \in 1..Len(targetedGroups) :
            sourceGroups[i] = targetedGroups[j]

isTargetedUser(userID, users) ==
    IF userID = "" THEN FALSE
    ELSE \E i \in 1..Len(users) : userID = users[i]

----------------------------------------------------------------------------
(* targeting.go: the targeting filter *)

\* the zero value of TargetingAudience, which decoding leaves when the
\* parameters carry no Audience
ZeroAudience ==
    [DefaultRolloutPercentage |-> 0, Users |-> <<>>, Groups |-> <<>>, Exclusion |-> Nil]

\* mapstructure.Decode of the parameters into TargetingFilterParameters
decodeTargetingParams(parameters) ==
    [Audience |-> IF parameters.Audience = Nil THEN ZeroAudience
                  ELSE Deref(parameters.Audience)]

\* the validation with the loop over the groups left out
validateTargetingParamsDefaultOnly(params) ==
    IF \/ params.Audience.DefaultRolloutPercentage < 0
       \/ params.Audience.DefaultRolloutPercentage > 100
    THEN [params |-> [Audience |-> ZeroAudience],
          err |-> Errorf("Audience.DefaultRolloutPercentage must be a number between 0 and 100")]
    ELSE [params |-> params, err |-> NoErr]

\* the validation of getTargetingParams on the decoded parameters
validateTargetingParams(params) ==
    IF \/ params.Audience.DefaultRolloutPercentage < 0
       \/ params.Audience.DefaultRolloutPercentage > 100
    THEN [params |-> [Audience |-> ZeroAudience],
          err |-> Errorf("Audience.DefaultRolloutPercentage must be a number between 0 and 100")]
    ELSE IF \E i \in 1..Len(params.Audience.Groups) :
               \/ params.Audience.Groups[i].RolloutPercentage < 0
               \/ params.Audience.Groups[i].RolloutPercentage > 100
    THEN [params |-> [Audience |-> ZeroAudience],
          err |-> Errorf("RolloutPercentage of group must be a number between 0 and 100")]
    ELSE [params |-> params, err |-> NoErr]

getTargetingParams(evalCtx) ==
    validateTargetingParams(decodeTargetingParams(evalCtx.Parameters))

\* the loop over params.Audience.Groups, from group i on: accepted, rejected by
\* an error, or fallen through to the default rollout
RECURSIVE targetGroups(_, _, _, _)
\* one round of the loop for a group the context belongs to: r is the group's
\* percentile check, next the rest of the loop
targetGroupStopsAtFirst(r, next) ==
    IF r.err # NoErr THEN [done |-> TRUE, ok |-> FALSE, err |-> r.err]
    ELSE IF r.ok THEN [done |-> TRUE, ok |-> TRUE, err |-> NoErr]
    ELSE [done |-> FALSE, ok |-> FALSE, err |-> NoErr]

targetGroup(r, next) ==
    IF r.err # NoErr THEN [done |-> TRUE, ok |-> FALSE, err |-> r.err]
    ELSE IF r.ok THEN [done |-> TRUE, ok |-> TRUE, err |-> NoErr]
    ELSE next

targetGroups(featureName, targetingCtx, groups, i) ==
    IF i > Len(groups) THEN [done |-> FALSE, ok |-> FALSE, err |-> NoErr]
    ELSE IF isTargetedGroup(targetingCtx.Groups, <<groups[i].Name>>)
    THEN targetGroup(isTargetedPercentile(targetingCtx.UserID,
                                          featureName \o "\n" \o groups[i].Name,
                                          0, groups[i].RolloutPercentage),
                     targetGroups(featureName, targetingCtx, groups, i + 1))
    ELSE targetGroups(featureName, targetingCtx, groups, i + 1)

\* the group step of Evaluate, and a rejection when no group decided
targetGroupsOrReject(g, default) ==
    IF g.done THEN [ok |-> g.ok, err |-> g.err] ELSE [ok |-> FALSE, err |-> NoErr]

\* the group step of Evaluate, then the default rollout when no group decided
targetGroupsOrDefault(g, default) ==
    IF g.done THEN [ok |-> g.ok, err |-> g.err] ELSE default

\* Evaluate with the user list consulted before the exclusion lists
targetAudienceUsersFirst(evalCtx, targetingCtx, audience) ==
    IF /\ targetingCtx.UserID # ""
       /\ Len(audience.Users) > 0
       /\ isTargetedUser(targetingCtx.UserID, audience.Users)
    THEN [ok |-> TRUE, err |-> NoErr]
    ELSE IF /\ audience.Exclusion # Nil
            /\ targetingCtx.UserID # ""
            /\ Len(Deref(audience.Exclusion).Users) > 0
            /\ isTargetedUser(targetingCtx.UserID, Deref(audience.Exclusion).Users)
    THEN [ok |-> FALSE, err |-> NoErr]
    ELSE IF /\ audience.Exclusion # Nil
            /\ Len(targetingCtx.Groups) > 0
            /\ Len(Deref(audience.Exclusion).Groups) > 0
            /\ isTargetedGroup(targetingCtx.Groups, Deref(audience.Exclusion).Groups)
    THEN [ok |-> FALSE, err |-> NoErr]
    ELSE targetGroupsOrDefault(
            IF Len(targetingCtx.Groups) > 0 /\ Len(audience.Groups) > 0
            THEN targetGroups(evalCtx.FeatureName, targetingCtx, audience.Groups, 1)
            ELSE [done |-> FALSE, ok |-> FALSE, err |-> NoErr],
            isTargetedPercentile(targetingCtx.UserID, evalCtx.FeatureName, 0,
                                 audience.DefaultRolloutPercentage))

\* Evaluate from the exclusion check on: the parameters are valid and the
\* context is a TargetingContext
targetAudience(evalCtx, targetingCtx, audience) ==
    IF /\ audience.Exclusion # Nil
       /\ targetingCtx.UserID # ""
       /\ Len(Deref(audience.Exclusion).Users) > 0
       /\ isTargetedUser(targetingCtx.UserID, Deref(audience.Exclusion).Users)
    THEN [ok |-> FALSE, err |-> NoErr]
    ELSE IF /\ audience.Exclusion # Nil
            /\ Len(targetingCtx.Groups) > 0
            /\ Len(Deref(audience.Exclusion).Groups) > 0
            /\ isTargetedGroup(targetingCtx.Groups, Deref(audience.Exclusion).Groups)
    THEN [ok |-> FALSE, err |-> NoErr]
    ELSE IF /\ targetingCtx.UserID # ""
            /\ Len(audience.Users) > 0
            /\ isTargetedUser(targetingCtx.UserID, audience.Users)
    THEN [ok |-> TRUE, err |-> NoErr]
    ELSE targetGroupsOrDefault(
            IF Len(targetingCtx.Groups) > 0 /\ Len(audience.Groups) > 0
            THEN targetGroups(evalCtx.FeatureName, targetingCtx, audience.Groups, 1)
            ELSE [done |-> FALSE, ok |-> FALSE, err |-> NoErr],
            isTargetedPercentile(targetingCtx.UserID, evalCtx.FeatureName, 0,
                                 audience.DefaultRolloutPercentage))

\* Evaluate answering false, without an error, for a context of another type
targetingEvaluateRejectsSilently(evalCtx, appCtx, p) ==
    IF p.err # NoErr THEN [ok |-> FALSE, err |-> p.err]
    ELSE IF appCtx.kind # "TargetingContext"
    THEN [ok |-> FALSE, err |-> NoErr]
    ELSE targetAudience(evalCtx, appCtx, p.params.Audience)

\* Evaluate once getTargetingParams returned p
targetingEvaluate(evalCtx, appCtx, p) ==
    IF p.err # NoErr THEN [ok |-> FALSE, err |-> p.err]
    ELSE IF appCtx.kind # "TargetingContext"
    THEN [ok |-> FALSE,
          err |-> Errorf("the app context is required for targeting filter and must be of type TargetingContext")]
    ELSE targetAudience(evalCtx, appCtx, p.params.Audience)

TargetingFilterEvaluate(evalCtx, appCtx) ==
    targetingEvaluate(evalCtx, appCtx, getTargetingParams(evalCtx))

----------------------------------------------------------------------------
(* The time window filter *)

\* parseTime: the instant a string denotes in one of the accepted layouts, in
\* seconds after 2024-01-01T00:00:00Z; a string in none of them is an error
parseTime(timeStr) ==
    CASE timeStr = "2024-01-01T00:00:01Z" -> [t |-> 1, err |-> NoErr]
      [] timeStr = "Mon, 01 Jan 2024 00:00:02 GMT" -> [t |-> 2, err |-> NoErr]
      [] OTHER -> [t |-> 0, err |-> Errorf("unable to parse time with any known format")]

\* Evaluate with the end of the window included
TimeWindowFilterEvaluateEndIncluded(evalCtx, appContext) ==
    LET params == evalCtx.Parameters
        start == IF params.Start # "" THEN parseTime(params.Start) ELSE [t |-> 0, err |-> NoErr]
        end == IF params.End # "" THEN parseTime(params.End) ELSE [t |-> 0, err |-> NoErr]
    IN IF start.err # NoErr
       THEN [ok |-> FALSE, err |-> Wrap("invalid start time format for feature", start.err)]
       ELSE IF end.err # NoErr
       THEN [ok |-> FALSE, err |-> Wrap("invalid end time format for feature", end.err)]
       ELSE IF params.Start = "" /\ params.End = ""
       THEN [ok |-> FALSE, err |-> NoErr]
       ELSE [ok |-> /\ params.Start = "" \/ ~(now < start.t)
                    /\ params.End = "" \/ ~(end.t < now),
             err |-> NoErr]

\* TimeWindowFilter.Evaluate: the clock is the variable now
TimeWindowFilterEvaluate(evalCtx, appContext) ==
    LET params == evalCtx.Parameters
        start == IF params.Start # "" THEN parseTime(params.Start) ELSE [t |-> 0, err |-> NoErr]
        end == IF params.End # "" THEN parseTime(params.End) ELSE [t |-> 0, err |-> NoErr]
        startTime == IF params.Start # "" THEN Ptr(start.t) ELSE Nil
        endTime == IF params.End # "" THEN Ptr(end.t) ELSE Nil
    IN IF start.err # NoErr
       THEN [ok |-> FALSE, err |-> Wrap("invalid start time format for feature", start.err)]
       ELSE IF end.err # NoErr
       THEN [ok |-> FALSE, err |-> Wrap("invalid end time format for feature", end.err)]
       ELSE IF startTime = Nil /\ endTime = Nil
       THEN [ok |-> FALSE, err |-> NoErr]
       ELSE LET isAfterStart == startTime = Nil \/ ~(now < Deref(startTime))
                isBeforeEnd == endTime = Nil \/ now < Deref(endTime)
            IN [ok |-> isAfterStart /\ isBeforeEnd, err |-> NoErr]

----------------------------------------------------------------------------
(* The filter registry *)

\* a filter supplied by the caller through Options.Filters; it honours the
\* FeatureFilter contract and answers what its parameters tell it to
CustomFilterEvaluate(evalCtx, appCtx) ==
    IF evalCtx.Parameters.Result = "true" THEN [ok |-> TRUE, err |-> NoErr]
    ELSE IF evalCtx.Parameters.Result = "false" THEN [ok |-> FALSE, err |-> NoErr]
    ELSE [ok |-> FALSE, err |-> Errorf("custom filter failed")]

\* FeatureFilter.Name()
FilterName(filter) ==
    CASE filter = "TargetingFilter" -> "Microsoft.Targeting"
      [] filter = "TimeWindowFilter" -> "Microsoft.TimeWindow"
      [] filter = "CustomFilter" -> "Custom"

\* FeatureFilter.Evaluate(evalCtx, appCtx), dispatched on the implementation
FilterEvaluate(filter, evalCtx, appCtx) ==
    CASE filter = "TargetingFilter" -> TargetingFilterEvaluate(evalCtx, appCtx)
      [] filter = "TimeWindowFilter" -> TimeWindowFilterEvaluate(evalCtx, appCtx)
      [] filter = "CustomFilter" -> CustomFilterEvaluate(evalCtx, appCtx)

\* NewFeatureManager: the registry holds the two built-in filters and then the
\* filters of the options, a later filter replacing an earlier one of its name
NewFeatureManager(options) ==
    LET opts == IF options = Nil THEN [Filters |-> <<>>] ELSE Deref(options)
        filters == <<"TargetingFilter", "TimeWindowFilter">> \o opts.Filters
        names == {FilterName(filters[i]) : i \in 1..Len(filters)}
        last(n) == CHOOSE i \in 1..Len(filters) :
                      /\ FilterName(filters[i]) = n
                      /\ \A j \in 1..Len(filters) : FilterName(filters[j]) = n => j <= i
    IN [n \in names |-> filters[last(n)]]

----------------------------------------------------------------------------
(* feature_manager.go: the condition evaluator *)

\* the loop over featureFlag.Conditions.ClientFilters, from filter i on; calls
\* lists the filters whose Evaluate was invoked, with what each returned
RECURSIVE evaluateFilters(_, _, _, _)
\* one round of the loop with a filter's error taken as the answer false
evaluateFilterErrorAsFalse(clientFilter, i, shortCircuitEvalResult, r, rest) ==
    IF r.ok = shortCircuitEvalResult
    THEN [ok |-> shortCircuitEvalResult, err |-> NoErr,
          calls |-> <<[index |-> i, Name |-> clientFilter.Name, ok |-> r.ok, err |-> r.err]>>]
    ELSE [rest EXCEPT
             !.calls = <<[index |-> i, Name |-> clientFilter.Name, ok |-> r.ok, err |-> r.err]>>
                          \o @]

\* one round of the loop: r is what the filter's Evaluate returned, rest the
\* rest of the loop
evaluateFilter(clientFilter, i, shortCircuitEvalResult, r, rest) ==
    IF r.err # NoErr
    THEN [ok |-> FALSE,
          err |-> Wrap("error evaluating filter " \o clientFilter.Name, r.err),
          calls |-> <<[index |-> i, Name |-> clientFilter.Name, ok |-> r.ok, err |-> r.err]>>]
    ELSE IF r.ok = shortCircuitEvalResult
    THEN [ok |-> shortCircuitEvalResult, err |-> NoErr,
          calls |-> <<[index |-> i, Name |-> clientFilter.Name, ok |-> r.ok, err |-> r.err]>>]
    ELSE [rest EXCEPT
             !.calls = <<[index |-> i, Name |-> clientFilter.Name, ok |-> r.ok, err |-> r.err]>>
                          \o @]

\* the loop passing over a filter the registry does not hold
evaluateFiltersSkippingUnregistered(featureFlag, appContext, shortCircuitEvalResult, i) ==
    IF i > Len(Deref(featureFlag.Conditions).ClientFilters)
    THEN [ok |-> ~shortCircuitEvalResult, err |-> NoErr, calls |-> <<>>]
    ELSE IF Deref(featureFlag.Conditions).ClientFilters[i].Name \notin DOMAIN featureFilters
    THEN evaluateFilters(featureFlag, appContext, shortCircuitEvalResult, i + 1)
    ELSE evaluateFilter(
            Deref(featureFlag.Conditions).ClientFilters[i], i, shortCircuitEvalResult,
            FilterEvaluate(
                featureFilters[Deref(featureFlag.Conditions).ClientFilters[i].Name],
                [FeatureName |-> featureFlag.ID,
                 Parameters |-> Deref(featureFlag.Conditions).ClientFilters[i].Parameters],
                appContext),
            evaluateFilters(featureFlag, appContext, shortCircuitEvalResult, i + 1))

\* the loop: an unregistered filter ends it with false and no error
evaluateFilters(featureFlag, appContext, shortCircuitEvalResult, i) ==
    IF i > Len(Deref(featureFlag.Conditions).ClientFilters)
    THEN [ok |-> ~shortCircuitEvalResult, err |-> NoErr, calls |-> <<>>]
    ELSE IF Deref(featureFlag.Conditions).ClientFilters[i].Name \notin DOMAIN featureFilters
    THEN [ok |-> FALSE, err |-> NoErr, calls |-> <<>>]
    ELSE evaluateFilter(
            Deref(featureFlag.Conditions).ClientFilters[i], i, shortCircuitEvalResult,
            FilterEvaluate(
                featureFilters[Deref(featureFlag.Conditions).ClientFilters[i].Name],
                [FeatureName |-> featureFlag.ID,
                 Parameters |-> Deref(featureFlag.Conditions).ClientFilters[i].Parameters],
                appContext),
            evaluateFilters(featureFlag, appContext, shortCircuitEvalResult, i + 1))

\* isEnabled taking every requirement type as Any
isEnabledAlwaysAny(featureFlag, appContext) ==
    IF ~featureFlag.Enabled
    THEN [ok |-> FALSE, err |-> NoErr, calls |-> <<>>]
    ELSE IF featureFlag.Conditions = Nil \/ Len(Deref(featureFlag.Conditions).ClientFilters) = 0
    THEN [ok |-> TRUE, err |-> NoErr, calls |-> <<>>]
    ELSE evaluateFilters(featureFlag, appContext, TRUE, 1)

\* isEnabled with All as the default requirement type
isEnabledDefaultAll(featureFlag, appContext) ==
    IF ~featureFlag.Enabled
    THEN [ok |-> FALSE, err |-> NoErr, calls |-> <<>>]
    ELSE IF featureFlag.Conditions = Nil \/ Len(Deref(featureFlag.Conditions).ClientFilters) = 0
    THEN [ok |-> TRUE, err |-> NoErr, calls |-> <<>>]
    ELSE evaluateFilters(featureFlag, appContext,
                         Deref(featureFlag.Conditions).RequirementType = RequirementTypeAny, 1)

\* isEnabled without the check for an empty filter list
isEnabledWithoutEmptyCheck(featureFlag, appContext) ==
    IF ~featureFlag.Enabled
    THEN [ok |-> FALSE, err |-> NoErr, calls |-> <<>>]
    ELSE IF featureFlag.Conditions = Nil
    THEN [ok |-> TRUE, err |-> NoErr, calls |-> <<>>]
    ELSE LET requirementType == IF Deref(featureFlag.Conditions).RequirementType # ""
                                THEN Deref(featureFlag.Conditions).RequirementType
                                ELSE RequirementTypeAny
         IN evaluateFilters(featureFlag, appContext, requirementType = RequirementTypeAny, 1)

\* isEnabled: the verdict of the conditions, the error, the filters invoked
isEnabled(featureFlag, appContext) ==
    IF ~featureFlag.Enabled
    THEN [ok |-> FALSE, err |-> NoErr, calls |-> <<>>]
    ELSE IF featureFlag.Conditions = Nil \/ Len(Deref(featureFlag.Conditions).ClientFilters) = 0
    THEN [ok |-> TRUE, err |-> NoErr, calls |-> <<>>]
    ELSE LET requirementType == IF Deref(featureFlag.Conditions).RequirementType # ""
                                THEN Deref(featureFlag.Conditions).RequirementType
                                ELSE RequirementTypeAny
         IN evaluateFilters(featureFlag, appContext, requirementType = RequirementTypeAny, 1)

----------------------------------------------------------------------------
(* feature_manager.go: the variant allocator *)

getVariant(variants, name) ==
    LET idx == {i \in 1..Len(variants) : variants[i].Name = name}
    IN IF idx = {} THEN Nil ELSE Ptr(variants[Min(idx)])

getVariantAssignment(featureFlag, variantName, reason) ==
    IF variantName = "" THEN Nil
    ELSE IF getVariant(featureFlag.Variants, variantName) = Nil THEN Nil
    ELSE Ptr([Variant |-> getVariant(featureFlag.Variants, variantName), Reason |-> reason])

\* the entries of an allocation class that match the context
targetedUserAllocations(allocation, targetingContext) ==
    {i \in 1..Len(allocation.User) :
        isTargetedUser(targetingContext.UserID, allocation.User[i].Users)}

targetedGroupAllocations(allocation, targetingContext) ==
    {i \in 1..Len(allocation.Group) :
        isTargetedGroup(targetingContext.Groups, allocation.Group[i].Groups)}

\* the error of isTargetedPercentile is dropped: an entry it rejects does not match
targetedPercentileAllocations(featureFlag, allocation, targetingContext) ==
    {i \in 1..Len(allocation.Percentile) :
        isTargetedPercentile(targetingContext.UserID,
                             IF allocation.Seed = "" THEN "allocation\n" \o featureFlag.ID
                             ELSE allocation.Seed,
                             allocation.Percentile[i].From,
                             allocation.Percentile[i].To).ok}

\* the loops of assignVariant with the group class consulted before the user class
assignFirstMatchGroupsFirst(featureFlag, allocation, userIdx, groupIdx, percentIdx) ==
    IF groupIdx # {}
    THEN getVariantAssignment(featureFlag, allocation.Group[Min(groupIdx)].Variant,
                              VariantAssignmentReasonGroup)
    ELSE IF userIdx # {}
    THEN getVariantAssignment(featureFlag, allocation.User[Min(userIdx)].Variant,
                              VariantAssignmentReasonUser)
    ELSE IF percentIdx # {}
    THEN getVariantAssignment(featureFlag, allocation.Percentile[Min(percentIdx)].Variant,
                              VariantAssignmentReasonPercentile)
    ELSE Ptr([Variant |-> Nil, Reason |-> VariantAssignmentReasonNone])

\* the three loops of assignVariant over the matching entries of each class
assignFirstMatch(featureFlag, allocation, userIdx, groupIdx, percentIdx) ==
    IF userIdx # {}
    THEN getVariantAssignment(featureFlag, allocation.User[Min(userIdx)].Variant,
                              VariantAssignmentReasonUser)
    ELSE IF groupIdx # {}
    THEN getVariantAssignment(featureFlag, allocation.Group[Min(groupIdx)].Variant,
                              VariantAssignmentReasonGroup)
    ELSE IF percentIdx # {}
    THEN getVariantAssignment(featureFlag, allocation.Percentile[Min(percentIdx)].Variant,
                              VariantAssignmentReasonPercentile)
    ELSE Ptr([Variant |-> Nil, Reason |-> VariantAssignmentReasonNone])

\* returns the *variantAssignment (nil when the variant an entry names is not
\* declared) and the error
assignVariant(featureFlag, targetingContext) ==
    IF featureFlag.Allocation = Nil
    THEN [assignment |-> Nil, err |-> Errorf("no allocation defined for feature")]
    ELSE [assignment |->
              assignFirstMatch(featureFlag, Deref(featureFlag.Allocation),
                  targetedUserAllocations(Deref(featureFlag.Allocation), targetingContext),
                  targetedGroupAllocations(Deref(featureFlag.Allocation), targetingContext),
                  targetedPercentileAllocations(featureFlag, Deref(featureFlag.Allocation),
                                                targetingContext)),
          err |-> NoErr]

----------------------------------------------------------------------------
(* feature_manager.go: the evaluation orchestrator *)

\* the zero EvaluationResult for a flag, as evaluateFeature declares it
NewEvaluationResult(featureFlag) ==
    [Feature |-> featureFlag, Enabled |-> FALSE, TargetingID |-> "",
     Variant |-> Nil, VariantAssignmentReason |-> ""]

\* the default variant of a state, named by the allocation
defaultVariant(featureFlag, name) ==
    IF featureFlag.Allocation # Nil /\ name # ""
    THEN getVariant(featureFlag.Variants, name)
    ELSE Nil

\* the enabled branch of the variant step: a is what assignVariant returned
\* when it was called (tried); a nil assignment is dereferenced
selectAssigned(featureFlag, tried, a) ==
    IF tried /\ a.err = NoErr /\ a.assignment = Nil
    THEN [variantDef |-> Nil, reason |-> VariantAssignmentReasonNone, panic |-> TRUE]
    ELSE IF tried /\ a.err = NoErr
            /\ ~(/\ Deref(a.assignment).Variant = Nil
                 /\ Deref(a.assignment).Reason = VariantAssignmentReasonNone)
    THEN [variantDef |-> Deref(a.assignment).Variant,
          reason |-> Deref(a.assignment).Reason, panic |-> FALSE]
    ELSE [variantDef |-> defaultVariant(featureFlag,
                            IF featureFlag.Allocation # Nil
                            THEN Deref(featureFlag.Allocation).DefaultWhenEnabled ELSE ""),
          reason |-> VariantAssignmentReasonDefaultWhenEnabled,
          panic |-> FALSE]

\* the variant step with the enabled default taken in the disabled state too
selectVariantEnabledDefaultOnly(featureFlag, enabled, targetingContext) ==
    IF Len(featureFlag.Variants) = 0
    THEN [variantDef |-> Nil, reason |-> VariantAssignmentReasonNone, panic |-> FALSE]
    ELSE IF ~enabled
    THEN [variantDef |-> defaultVariant(featureFlag,
                            IF featureFlag.Allocation # Nil
                            THEN Deref(featureFlag.Allocation).DefaultWhenEnabled ELSE ""),
          reason |-> VariantAssignmentReasonDefaultWhenDisabled,
          panic |-> FALSE]
    ELSE selectAssigned(featureFlag,
                        targetingContext # Nil /\ featureFlag.Allocation # Nil,
                        IF targetingContext # Nil /\ featureFlag.Allocation # Nil
                        THEN assignVariant(featureFlag, Deref(targetingContext))
                        ELSE [assignment |-> Nil, err |-> NoErr])

\* the variant step taken whether or not the flag declares variants
selectVariantOfAnyFlag(featureFlag, enabled, targetingContext) ==
    IF ~enabled
    THEN [variantDef |-> defaultVariant(featureFlag,
                            IF featureFlag.Allocation # Nil
                            THEN Deref(featureFlag.Allocation).DefaultWhenDisabled ELSE ""),
          reason |-> VariantAssignmentReasonDefaultWhenDisabled,
          panic |-> FALSE]
    ELSE selectAssigned(featureFlag,
                        targetingContext # Nil /\ featureFlag.Allocation # Nil,
                        IF targetingContext # Nil /\ featureFlag.Allocation # Nil
                        THEN assignVariant(featureFlag, Deref(targetingContext))
                        ELSE [assignment |-> Nil, err |-> NoErr])

\* the variant chosen for the computed enabled state: the definition, the
\* reason, and whether choosing it dereferenced a nil *variantAssignment
selectVariant(featureFlag, enabled, targetingContext) ==
    IF Len(featureFlag.Variants) = 0
    THEN [variantDef |-> Nil, reason |-> VariantAssignmentReasonNone, panic |-> FALSE]
    ELSE IF ~enabled
    THEN [variantDef |-> defaultVariant(featureFlag,
                            IF featureFlag.Allocation # Nil
                            THEN Deref(featureFlag.Allocation).DefaultWhenDisabled ELSE ""),
          reason |-> VariantAssignmentReasonDefaultWhenDisabled,
          panic |-> FALSE]
    ELSE selectAssigned(featureFlag,
                        targetingContext # Nil /\ featureFlag.Allocation # Nil,
                        IF targetingContext # Nil /\ featureFlag.Allocation # Nil
                        THEN assignVariant(featureFlag, Deref(targetingContext))
                        ELSE [assignment |-> Nil, err |-> NoErr])

\* the status override with the Disabled case left out
applyStatusOverrideEnabledOnly(featureFlag, variantDef, enabled) ==
    IF variantDef # Nil /\ featureFlag.Enabled
    THEN IF Deref(variantDef).StatusOverride = StatusOverrideEnabled THEN TRUE
         ELSE enabled
    ELSE enabled

\* the status override applied whether or not the flag is marked enabled
applyStatusOverrideUnguarded(featureFlag, variantDef, enabled) ==
    IF variantDef # Nil
    THEN IF Deref(variantDef).StatusOverride = StatusOverrideEnabled THEN TRUE
         ELSE IF Deref(variantDef).StatusOverride = StatusOverrideDisabled THEN FALSE
         ELSE enabled
    ELSE enabled

\* the status override of the chosen variant applied to the computed state
applyStatusOverride(featureFlag, variantDef, enabled) ==
    IF variantDef # Nil /\ featureFlag.Enabled
    THEN IF Deref(variantDef).StatusOverride = StatusOverrideEnabled THEN TRUE
         ELSE IF Deref(variantDef).StatusOverride = StatusOverrideDisabled THEN FALSE
         ELSE enabled
    ELSE enabled

\* the callbacks invoked whenever the flag declares telemetry, enabled or not
triggerCallbacksWheneverDeclared(featureFlag, result) ==
    IF /\ featureFlag.Telemetry # Nil
       /\ Len(onFeatureEvaluated) > 0
    THEN [i \in 1..Len(onFeatureEvaluated) |->
             [callback |-> onFeatureEvaluated[i], evalRes |-> result]]
    ELSE <<>>

\* the callbacks evaluateFeature invokes with the result, in order
triggerCallbacks(featureFlag, result) ==
    IF /\ featureFlag.Telemetry # Nil
       /\ Deref(featureFlag.Telemetry).Enabled
       /\ Len(onFeatureEvaluated) > 0
    THEN [i \in 1..Len(onFeatureEvaluated) |->
             [callback |-> onFeatureEvaluated[i], evalRes |-> result]]
    ELSE <<>>

\* the *TargetingContext evaluateFeature takes from the caller's context
asTargetingContext(appContext) ==
    IF appContext.kind # "nil" /\ appContext.kind = "*TargetingContext"
    THEN Ptr([UserID |-> appContext.UserID, Groups |-> appContext.Groups])
    ELSE Nil

\* the EvaluationResult for the condition verdict, the context and the variant
buildResult(featureFlag, enabled, targetingContext, v) ==
    [Feature |-> featureFlag,
     Enabled |-> applyStatusOverride(featureFlag, v.variantDef, enabled),
     TargetingID |-> IF targetingContext # Nil THEN Deref(targetingContext).UserID ELSE "",
     Variant |-> IF v.variantDef # Nil
                 THEN Ptr([Name |-> Deref(v.variantDef).Name,
                           ConfigurationValue |-> Deref(v.variantDef).ConfigurationValue])
                 ELSE Nil,
     VariantAssignmentReason |-> v.reason]

\* evaluateFeature once the flag is valid and the conditions gave c without an
\* error: v is the variant step, result the result it builds
evaluateVariant(featureFlag, c, v, result) ==
    IF v.panic
    THEN [result |-> NewEvaluationResult(featureFlag), err |-> NoErr, panic |-> TRUE,
          conditions |-> Ptr([ok |-> c.ok, err |-> c.err]),
          calls |-> c.calls, callbacks |-> <<>>]
    ELSE [result |-> result, err |-> NoErr, panic |-> FALSE,
          conditions |-> Ptr([ok |-> c.ok, err |-> c.err]),
          calls |-> c.calls, callbacks |-> triggerCallbacks(featureFlag, result)]

\* evaluateFeature once the flag is valid: c is what isEnabled returned
evaluateConditions(featureFlag, appContext, c) ==
    IF c.err # NoErr
    THEN [result |-> NewEvaluationResult(featureFlag), err |-> c.err, panic |-> FALSE,
          conditions |-> Ptr([ok |-> c.ok, err |-> c.err]),
          calls |-> c.calls, callbacks |-> <<>>]
    ELSE evaluateVariant(featureFlag, c,
            selectVariant(featureFlag, c.ok, asTargetingContext(appContext)),
            buildResult(featureFlag, c.ok, asTargetingContext(appContext),
                        selectVariant(featureFlag, c.ok, asTargetingContext(appContext))))

\* validateFeatureFlag's verdict decides whether the evaluation goes on
evaluateValidated(featureFlag, appContext, verr) ==
    IF verr # NoErr
    THEN [result |-> NewEvaluationResult(featureFlag),
          err |-> Wrap("invalid feature flag", verr), panic |-> FALSE,
          conditions |-> Nil, calls |-> <<>>, callbacks |-> <<>>]
    ELSE evaluateConditions(featureFlag, appContext, isEnabled(featureFlag, appContext))

\* evaluateFeature: the result and the error it returns, with what it did on
\* the way: the condition evaluator's verdict (nil when it was not run), the
\* filters invoked, the callbacks invoked, and whether it panicked
evaluateFeature(featureFlag, appContext) ==
    evaluateValidated(featureFlag, appContext, validateFeatureFlag(featureFlag))

----------------------------------------------------------------------------
(* The flag provider *)

\* FeatureFlagProvider.GetFeatureFlags: every flag, or the error of a provider
\* that could not retrieve them
GetFeatureFlags(failed) ==
    IF failed
    THEN [flags |-> <<>>, err |-> Errorf("feature flags cannot be retrieved")]
    ELSE [flags |-> featureFlags, err |-> NoErr]

\* FeatureFlagProvider.GetFeatureFlag: the first flag of the list with the id
GetFeatureFlag(id) ==
    LET idx == {i \in 1..Len(featureFlags) : featureFlags[i].ID = id}
    IN IF idx = {}
       THEN [flag |-> Nil, err |-> Errorf("feature flag with ID " \o id \o " not found")]
       ELSE [flag |-> Ptr(featureFlags[Min(idx)]), err |-> NoErr]

----------------------------------------------------------------------------
(* The flags, the options and the caller contexts of the model *)

MaxFilters == 2     \* client filters a flag declares, at most
MaxCallbacks == 2   \* callbacks registered with OnFeatureEvaluated, at most

FeatureID == "ComplexTargeting"

NoParameters == [Result |-> "", Audience |-> Nil, Start |-> "", End |-> ""]

CustomClientFilter(result) ==
    [Name |-> "Custom", Parameters |-> [NoParameters EXCEPT !.Result = result]]

TargetingClientFilter(audience) ==
    [Name |-> "Microsoft.Targeting",
     Parameters |-> [NoParameters EXCEPT !.Audience = Ptr(audience)]]

\* the audience of TestTargetingFilter
TestAudience ==
    [DefaultRolloutPercentage |-> 25,
     Users |-> <<"Alice">>,
     Groups |-> <<[Name |-> "Stage1", RolloutPercentage |-> 100],
                  [Name |-> "Stage2", RolloutPercentage |-> 50]>>,
     Exclusion |-> Ptr([Users |-> <<"Dave">>, Groups |-> <<"Stage3">>])]

CoreClientFilters ==
    {CustomClientFilter(r) : r \in {"true", "false", "error"}}
        \cup {TargetingClientFilter(TestAudience)}

CoreConditions ==
    {Nil} \cup {Ptr([RequirementType |-> rt, ClientFilters |-> fs]) :
                   rt \in {"", RequirementTypeAny, RequirementTypeAll},
                   fs \in SeqsUpTo(CoreClientFilters, MaxFilters)}

NoAllocation ==
    [DefaultWhenDisabled |-> "", DefaultWhenEnabled |-> "",
     User |-> <<>>, Group |-> <<>>, Percentile |-> <<>>, Seed |-> ""]

\* two variants that override the status, each the default of the state it
\* contradicts
OverrideVariants ==
    <<[Name |-> "Big", ConfigurationValue |-> "500px", StatusOverride |-> StatusOverrideEnabled],
      [Name |-> "Small", ConfigurationValue |-> "300px", StatusOverride |-> StatusOverrideDisabled]>>

OverrideAllocation ==
    [NoAllocation EXCEPT !.DefaultWhenDisabled = "Big", !.DefaultWhenEnabled = "Small"]

TelemetryOn == Ptr([Enabled |-> TRUE])

\* a flag declares no variants and no telemetry, or the overriding variants
\* with telemetry
CoreVariants ==
    {[Variants |-> <<>>, Allocation |-> Nil, Telemetry |-> Nil],
     [Variants |-> OverrideVariants, Allocation |-> Ptr(OverrideAllocation),
      Telemetry |-> TelemetryOn]}

\* the enabled flags over every condition, and the disabled flags over the
\* conditions of one requirement type
ValidCoreFlags ==
    {[ID |-> FeatureID, Enabled |-> TRUE, Conditions |-> c,
      Variants |-> v.Variants, Allocation |-> v.Allocation, Telemetry |-> v.Telemetry] :
        c \in CoreConditions, v \in CoreVariants}
    \cup
    {[ID |-> FeatureID, Enabled |-> FALSE, Conditions |-> c,
      Variants |-> v.Variants, Allocation |-> v.Allocation, Telemetry |-> v.Telemetry] :
        c \in {Nil} \cup {Ptr([RequirementType |-> RequirementTypeAll, ClientFilters |-> fs]) :
                            fs \in SeqsUpTo(CoreClientFilters, MaxFilters)},
        v \in CoreVariants}

\* a valid flag with a filter, variants and every kind of allocation, and the
\* flags that differ from it by one structural defect
SoundFlag(en) ==
    [ID |-> FeatureID, Enabled |-> en,
     Conditions |-> Ptr([RequirementType |-> RequirementTypeAny,
                         ClientFilters |-> <<CustomClientFilter("true")>>]),
     Variants |-> OverrideVariants,
     Allocation |-> Ptr([OverrideAllocation EXCEPT
                            !.User = <<[Variant |-> "Big", Users |-> <<"Alice">>]>>,
                            !.Group = <<[Variant |-> "Small", Groups |-> <<"Stage1">>]>>,
                            !.Percentile = <<[Variant |-> "Big", From |-> 0, To |-> 50]>>]),
     Telemetry |-> TelemetryOn]

Defects ==
    {"ID", "RequirementType", "ClientFilter.Name", "Variant.Name", "StatusOverride",
     "User.Variant", "Group.Variant", "Percentile.Variant", "User.Users", "Group.Groups",
     "From<0", "From>100", "To<0", "To>100"}

Defective(flag, defect) ==
    LET c == Deref(flag.Conditions)
        a == Deref(flag.Allocation)
    IN CASE defect = "ID" -> [flag EXCEPT !.ID = ""]
         [] defect = "RequirementType" ->
                [flag EXCEPT !.Conditions = Ptr([c EXCEPT !.RequirementType = "Sometimes"])]
         [] defect = "ClientFilter.Name" ->
                [flag EXCEPT !.Conditions = Ptr([c EXCEPT !.ClientFilters =
                    Append(@, [Name |-> "", Parameters |-> NoParameters])])]
         [] defect = "Variant.Name" -> [flag EXCEPT !.Variants[2].Name = ""]
         [] defect = "StatusOverride" -> [flag EXCEPT !.Variants[2].StatusOverride = "Maybe"]
         [] defect = "User.Variant" ->
                [flag EXCEPT !.Allocation = Ptr([a EXCEPT !.User[1].Variant = ""])]
         [] defect = "Group.Variant" ->
                [flag EXCEPT !.Allocation = Ptr([a EXCEPT !.Group[1].Variant = ""])]
         [] defect = "Percentile.Variant" ->
                [flag EXCEPT !.Allocation = Ptr([a EXCEPT !.Percentile[1].Variant = ""])]
         [] defect = "User.Users" ->
                [flag EXCEPT !.Allocation = Ptr([a EXCEPT !.User[1].Users = <<>>])]
         [] defect = "Group.Groups" ->
                [flag EXCEPT !.Allocation = Ptr([a EXCEPT !.Group[1].Groups = <<>>])]
         [] defect = "From<0" ->
                [flag EXCEPT !.Allocation = Ptr([a EXCEPT !.Percentile[1].From = -1])]
         [] defect = "From>100" ->
                [flag EXCEPT !.Allocation = Ptr([a EXCEPT !.Percentile[1].From = 101,
                                                          !.Percentile[1].To = 100])]
         [] defect = "To<0" ->
                [flag EXCEPT !.Allocation = Ptr([a EXCEPT !.Percentile[1].To = -1])]
         [] defect = "To>100" ->
                [flag EXCEPT !.Allocation = Ptr([a EXCEPT !.Percentile[1].To = 101])]

DefectiveFlags ==
    {SoundFlag(en) : en \in BOOLEAN}
        \cup {Defective(SoundFlag(en), d) : en \in BOOLEAN, d \in Defects}

\* the sound flag with its telemetry declared and switched off
TelemetryOffFlags ==
    {[SoundFlag(en) EXCEPT !.Telemetry = Ptr([Enabled |-> FALSE])] : en \in BOOLEAN}

\* the sound flag with its user allocation naming a variant it does not declare
UndeclaredVariantFlags ==
    {[SoundFlag(en) EXCEPT !.Allocation =
         Ptr([Deref(@) EXCEPT !.User = <<[Variant |-> "Huge", Users |-> <<"Alice">>]>>])] :
        en \in BOOLEAN}

\* the sound flag with no user entry and a percentile range that ends before
\* it starts
InvertedRangeFlags ==
    {[SoundFlag(en) EXCEPT !.Allocation =
         Ptr([Deref(@) EXCEPT !.User = <<>>,
                              !.Percentile = <<[Variant |-> "Big", From |-> 50, To |-> 20]>>])] :
        en \in BOOLEAN}

\* the sound flag behind the targeting filter: the audience and the user
\* entry of the allocation both name Alice
TargetedAllocationFlags ==
    {[SoundFlag(en) EXCEPT !.Conditions =
         Ptr([RequirementType |-> RequirementTypeAny,
              ClientFilters |-> <<TargetingClientFilter(TestAudience)>>])] :
        en \in BOOLEAN}

CoreFlags ==
    ValidCoreFlags \cup DefectiveFlags \cup TelemetryOffFlags \cup UndeclaredVariantFlags
        \cup InvertedRangeFlags \cup TargetedAllocationFlags

\* nil options, and options with the caller's filter
CoreOptions == {Nil, Ptr([Filters |-> <<"CustomFilter">>])}

NilContext == [kind |-> "nil", UserID |-> "", Groups |-> <<>>]

TargetingContextValue(userID, groups) ==
    [kind |-> "TargetingContext", UserID |-> userID, Groups |-> groups]

TargetingContextPointer(userID, groups) ==
    [kind |-> "*TargetingContext", UserID |-> userID, Groups |-> groups]

\* a context of another type
OtherContext == [kind |-> "string", UserID |-> "", Groups |-> <<>>]

CoreContexts ==
    {TargetingContextValue("Alice", <<>>),
     TargetingContextValue("Dave", <<"Stage1">>),
     TargetingContextPointer("Alice", <<>>),
     OtherContext}

Callbacks == {"callback1", "callback2"}

----------------------------------------------------------------------------
(* feature_manager.go: the operations of the FeatureManager *)

\* Variant{}: a nil configuration value is "<nil>"
ZeroVariant == [Name |-> "", ConfigurationValue |-> "<nil>"]

\* what a call returns: the boolean and the error of IsEnabled and
\* IsEnabledWithAppContext (or the panic that ends the call), the Variant of
\* GetVariant, and the slice of GetFeatureNames (Nil for a nil slice)
NoReturn ==
    [value |-> FALSE, err |-> NoErr, panic |-> FALSE, variant |-> ZeroVariant, names |-> Nil]

NoTrace ==
    [op |-> "none", featureName |-> "", appContext |-> NilContext, flag |-> Nil,
     conditions |-> Nil, result |-> Nil, calls |-> <<>>, callbacks |-> <<>>,
     providerErr |-> NoErr]

\* what a call returns for the flag the provider gave (g) and the evaluation
\* of that flag (e), and what it did
returnEvaluation(call, g, e) ==
    IF g.err # NoErr
    THEN [ret |-> [NoReturn EXCEPT
                      !.err = Wrap("failed to get feature flag " \o call.featureName, g.err)],
          trace |-> call]
    ELSE [ret |-> IF e.panic THEN [NoReturn EXCEPT !.panic = TRUE]
                  ELSE IF e.err # NoErr
                  THEN [NoReturn EXCEPT
                           !.err = Wrap("failed to evaluate feature " \o call.featureName, e.err)]
                  ELSE [NoReturn EXCEPT !.value = e.result.Enabled],
          trace |-> [call EXCEPT !.flag = g.flag,
                                 !.conditions = e.conditions,
                                 !.result = IF e.err = NoErr /\ ~e.panic
                                            THEN Ptr(e.result) ELSE Nil,
                                 !.calls = e.calls,
                                 !.callbacks = e.callbacks]]

\* the evaluation of the flag the provider gave, when it gave one
evaluateProvided(g, appContext) ==
    IF g.err # NoErr THEN [err |-> g.err]
    ELSE evaluateFeature(Deref(g.flag), appContext)

\* the body IsEnabled and IsEnabledWithAppContext share
evaluationOutcome(op, featureName, appContext) ==
    returnEvaluation([NoTrace EXCEPT !.op = op, !.featureName = featureName,
                                     !.appContext = appContext],
                     GetFeatureFlag(featureName),
                     evaluateProvided(GetFeatureFlag(featureName), appContext))

\* the names a caller asks for: the flags of the provider, and one it lacks
FeatureNames == {featureFlags[i].ID : i \in 1..Len(featureFlags)} \cup {"NonExistentFeature"}

IsEnabled(featureName) ==
    LET o == evaluationOutcome("IsEnabled", featureName, NilContext)
    IN /\ ret' = o.ret
       /\ trace' = o.trace
       /\ UNCHANGED <<featureFlags, featureFilters, onFeatureEvaluated, now>>

\* the evaluation with the callbacks it invoked taken off the list
IsEnabledWithAppContextConsuming(featureName, appContext) ==
    LET o == evaluationOutcome("IsEnabledWithAppContext", featureName, appContext)
    IN /\ ret' = o.ret
       /\ trace' = o.trace
       /\ onFeatureEvaluated' = IF o.trace.callbacks # <<>> THEN <<>> ELSE onFeatureEvaluated
       /\ UNCHANGED <<featureFlags, featureFilters, now>>

IsEnabledWithAppContext(featureName, appContext) ==
    LET o == evaluationOutcome("IsEnabledWithAppContext", featureName, appContext)
    IN /\ ret' = o.ret
       /\ trace' = o.trace
       /\ UNCHANGED <<featureFlags, featureFilters, onFeatureEvaluated, now>>

\* GetVariant reads neither the provider nor its arguments
GetVariant(featureName, appContext) ==
    /\ ret' = [NoReturn EXCEPT !.variant = ZeroVariant, !.err = NoErr]
    /\ trace' = [NoTrace EXCEPT !.op = "GetVariant", !.featureName = featureName,
                                !.appContext = appContext]
    /\ UNCHANGED <<featureFlags, featureFilters, onFeatureEvaluated, now>>

\* make([]string, len(flags)) followed by one append for each flag
appendFeatureNames(flags) ==
    [i \in 1..Len(flags) |-> ""] \o [i \in 1..Len(flags) |-> flags[i].ID]

\* provided is what the provider's GetFeatureFlags returned
GetFeatureNames(provided) ==
    /\ ret' = [NoReturn EXCEPT
                  !.names = IF provided.err # NoErr THEN Nil
                            ELSE Ptr(appendFeatureNames(provided.flags))]
    /\ trace' = [NoTrace EXCEPT !.op = "GetFeatureNames", !.providerErr = provided.err]
    /\ UNCHANGED <<featureFlags, featureFilters, onFeatureEvaluated, now>>

\* a nil callback is "nil"
OnFeatureEvaluated(callback) ==
    /\ Len(onFeatureEvaluated) < MaxCallbacks
    /\ onFeatureEvaluated' = IF callback = "nil" THEN onFeatureEvaluated
                             ELSE Append(onFeatureEvaluated, callback)
    /\ ret' = NoReturn
    /\ trace' = [NoTrace EXCEPT !.op = "OnFeatureEvaluated"]
    /\ UNCHANGED <<featureFlags, featureFilters, now>>

----------------------------------------------------------------------------
(* The feature manager over one flag *)

Init ==
    /\ featureFlags \in {<<f>> : f \in CoreFlags}
    /\ featureFilters \in {NewFeatureManager(o) : o \in CoreOptions}
    /\ onFeatureEvaluated = <<>>
    /\ now = 0
    /\ ret = NoReturn
    /\ trace = NoTrace

Next ==
    \/ \E n \in FeatureNames : IsEnabled(n)
    \/ \E n \in FeatureNames, c \in CoreContexts : IsEnabledWithAppContext(n, c)
    \/ \E cb \in Callbacks \cup {"nil"} : OnFeatureEvaluated(cb)

Spec == Init /\ [][Next]_vars

----------------------------------------------------------------------------
(* The targeting filter over every audience: the provider holds one enabled *)
(* flag whose only client filter is Microsoft.Targeting                     *)

MaxGroups == 2      \* groups an audience declares, at most

\* audience groups with rollouts inside and outside [0,100]
AudienceGroups ==
    {[Name |-> "Stage1", RolloutPercentage |-> 100],
     [Name |-> "Stage3", RolloutPercentage |-> 100],
     [Name |-> "Stage1", RolloutPercentage |-> 101],
     [Name |-> "Stage2", RolloutPercentage |-> -1],
     [Name |-> "Stage2", RolloutPercentage |-> 50]}

TargetingAudiences ==
    {[DefaultRolloutPercentage |-> d, Users |-> u, Groups |-> g, Exclusion |-> x] :
        d \in {-1, 0, 50, 100, 101},
        u \in {<<>>, <<"Alice", "Dave">>},
        g \in SeqsUpTo(AudienceGroups, MaxGroups),
        x \in {Nil, Ptr([Users |-> <<"Dave">>, Groups |-> <<"Stage3">>])}}

TargetingFlags ==
    {[ID |-> FeatureID, Enabled |-> TRUE,
      Conditions |-> Ptr([RequirementType |-> "",
                          ClientFilters |-> <<TargetingClientFilter(a)>>]),
      Variants |-> <<>>, Allocation |-> Nil, Telemetry |-> Nil] :
        a \in TargetingAudiences}

TargetingContexts ==
    {TargetingContextValue(u, g) :
        u \in {"", "Alice", "Dave", "Aiden"},
        g \in {<<>>, <<"Stage1">>, <<"Stage3">>, <<"Stage2", "Stage3">>}}
        \cup {TargetingContextPointer("Dave", <<"Stage1">>),
              TargetingContextPointer("Aiden", <<"Stage3">>),
              OtherContext}

InitTargeting ==
    /\ featureFlags \in {<<f>> : f \in TargetingFlags}
    /\ featureFilters = NewFeatureManager(Nil)
    /\ onFeatureEvaluated = <<>>
    /\ now = 0
    /\ ret = NoReturn
    /\ trace = NoTrace

NextTargeting ==
    \/ \E n \in FeatureNames : IsEnabled(n)
    \/ \E n \in FeatureNames, c \in TargetingContexts : IsEnabledWithAppContext(n, c)

SpecTargeting == InitTargeting /\ [][NextTargeting]_vars

----------------------------------------------------------------------------
(* The time window filter over every window and every time: the provider   *)
(* holds one enabled flag whose only client filter is Microsoft.TimeWindow  *)

MaxNow == 3         \* the latest time of the clock, in seconds after the epoch of the model

TimeWindowClientFilter(start, end) ==
    [Name |-> "Microsoft.TimeWindow",
     Parameters |-> [NoParameters EXCEPT !.Start = start, !.End = end]]

\* an absent bound, the two times parseTime knows, and a string it rejects
TimeStrings == {"", "2024-01-01T00:00:01Z", "Mon, 01 Jan 2024 00:00:02 GMT", "tomorrow"}

TimeWindowFlags ==
    {[ID |-> FeatureID, Enabled |-> TRUE,
      Conditions |-> Ptr([RequirementType |-> "",
                          ClientFilters |-> <<TimeWindowClientFilter(st, en)>>]),
      Variants |-> <<>>, Allocation |-> Nil, Telemetry |-> Nil] :
        st \in TimeStrings, en \in TimeStrings}

InitTimeWindow ==
    /\ featureFlags \in {<<f>> : f \in TimeWindowFlags}
    /\ featureFilters = NewFeatureManager(Nil)
    /\ onFeatureEvaluated = <<>>
    /\ now \in 0..MaxNow
    /\ ret = NoReturn
    /\ trace = NoTrace

NextTimeWindow ==
    \/ \E n \in FeatureNames : IsEnabled(n)
    \/ \E n \in FeatureNames, c \in CoreContexts : IsEnabledWithAppContext(n, c)

SpecTimeWindow == InitTimeWindow /\ [][NextTimeWindow]_vars

----------------------------------------------------------------------------
(* The variant step over every allocation: the provider holds one flag with *)
(* three variants, and the registry holds the caller's filter               *)

\* a variant for each status override
AllocatedVariants ==
    <<[Name |-> "Big", ConfigurationValue |-> "500px", StatusOverride |-> StatusOverrideEnabled],
      [Name |-> "Small", ConfigurationValue |-> "300px", StatusOverride |-> StatusOverrideDisabled],
      [Name |-> "Medium", ConfigurationValue |-> "450px", StatusOverride |-> StatusOverrideNone]>>

\* no default, the declared variants, and a variant the flag does not declare
DefaultNames == {"", "Big", "Small", "Medium", "Huge"}

\* each class of allocation is empty or holds one entry; the user and the
\* percentile class may hold two, the second matching whatever the first does
VariantAllocations ==
    {[DefaultWhenDisabled |-> dd, DefaultWhenEnabled |-> de,
      User |-> u, Group |-> g, Percentile |-> p, Seed |-> ""] :
        dd \in DefaultNames, de \in DefaultNames,
        u \in {<<>>, <<[Variant |-> "Small", Users |-> <<"Alice">>]>>,
                <<[Variant |-> "Medium", Users |-> <<"Dave">>],
                  [Variant |-> "Small", Users |-> <<"Alice", "Dave">>]>>},
        g \in {<<>>, <<[Variant |-> "Big", Groups |-> <<"Stage1">>]>>},
        p \in {<<>>, <<[Variant |-> "Medium", From |-> 0, To |-> 50]>>,
                <<[Variant |-> "Big", From |-> 0, To |-> 20],
                  [Variant |-> "Small", From |-> 0, To |-> 50]>>}}

\* no conditions, a filter that accepts, one that rejects, and one the
\* registry does not hold
VariantConditions ==
    {Nil}
        \cup {Ptr([RequirementType |-> "", ClientFilters |-> <<CustomClientFilter(r)>>]) :
                 r \in {"true", "false"}}
        \cup {Ptr([RequirementType |-> RequirementTypeAll,
                   ClientFilters |-> <<[Name |-> "Missing", Parameters |-> NoParameters]>>])}

\* the flags that declare the variants, over every allocation, and the flags
\* that declare none, without an allocation and with one that names variants
VariantFlags ==
    {[ID |-> FeatureID, Enabled |-> en, Conditions |-> c,
      Variants |-> AllocatedVariants, Allocation |-> a, Telemetry |-> Nil] :
        en \in BOOLEAN, c \in VariantConditions,
        a \in {Nil} \cup {Ptr(x) : x \in VariantAllocations}}
    \cup
    {[ID |-> FeatureID, Enabled |-> en, Conditions |-> c,
      Variants |-> <<>>, Allocation |-> a, Telemetry |-> Nil] :
        en \in BOOLEAN, c \in VariantConditions,
        a \in {Nil, Ptr([DefaultWhenDisabled |-> "Big", DefaultWhenEnabled |-> "Medium",
                         User |-> <<[Variant |-> "Small", Users |-> <<"Alice">>]>>,
                         Group |-> <<>>, Percentile |-> <<>>, Seed |-> ""])}}

\* Alice and Dave are allocated as users and by percentile, Dave in the first
\* range too, and Dave may come with a group; Chris is allocated by nothing
VariantContexts ==
    {TargetingContextPointer("Alice", <<>>),
     TargetingContextPointer("Dave", <<>>),
     TargetingContextPointer("Dave", <<"Stage1">>),
     TargetingContextPointer("Chris", <<>>),
     TargetingContextValue("Alice", <<>>)}

InitVariants ==
    /\ featureFlags \in {<<f>> : f \in VariantFlags}
    /\ featureFilters = NewFeatureManager(Ptr([Filters |-> <<"CustomFilter">>]))
    /\ onFeatureEvaluated = <<>>
    /\ now = 0
    /\ ret = NoReturn
    /\ trace = NoTrace

NextVariants ==
    \/ \E n \in FeatureNames : IsEnabled(n)
    \/ \E n \in FeatureNames, c \in VariantContexts : IsEnabledWithAppContext(n, c)
    \/ \E n \in FeatureNames, c \in VariantContexts \cup {NilContext} : GetVariant(n, c)

SpecVariants == InitVariants /\ [][NextVariants]_vars

----------------------------------------------------------------------------
(* The percentile hasher over every user and hint whose digest the model   *)
(* knows: a call of isTargetedPercentile on inputs drawn at the start      *)

PercentileUsers ==
    {"", "Alice", "Dave", "Aiden", "Blossom", "Chris", "Marsha", "user2011583494",
     "user2104546143"}

PercentileHints ==
    {"ComplexTargeting", "ComplexTargeting\nStage1", "ComplexTargeting\nStage2",
     "ComplexTargeting\nStage3", "allocation\nComplexTargeting", "1234", "12345"}

PercentileBounds == {0, 20, 50, 100}

InitPercentile ==
    /\ featureFlags = <<>>
    /\ featureFilters = NewFeatureManager(Nil)
    /\ onFeatureEvaluated = <<>>
    /\ now = 0
    /\ ret = NoReturn
    /\ trace \in {[op |-> "none", userID |-> u, hint |-> h, from |-> f, to |-> t,
                   contextMarker |-> Nil] :
                     u \in PercentileUsers, h \in PercentileHints,
                     f \in PercentileBounds, t \in PercentileBounds}

\* the call on the drawn inputs: what it returns, and the marker it hashed
\* when the range was valid
IsTargetedPercentile ==
    /\ trace.op = "none"
    /\ ret' = [NoReturn EXCEPT
                  !.value = isTargetedPercentile(trace.userID, trace.hint,
                                                 trace.from, trace.to).ok,
                  !.err = isTargetedPercentile(trace.userID, trace.hint,
                                               trace.from, trace.to).err]
    /\ trace' = [trace EXCEPT
                    !.op = "isTargetedPercentile",
                    !.contextMarker =
                        IF trace.from > trace.to THEN Nil
                        ELSE Ptr(hashStringToUint32(
                                 constructAudienceContextID(trace.userID, trace.hint)))]
    /\ UNCHANGED <<featureFlags, featureFilters, onFeatureEvaluated, now>>

NextPercentile == IsTargetedPercentile

SpecPercentile == InitPercentile /\ [][NextPercentile]_vars

----------------------------------------------------------------------------
(* The manager over a provider that holds several flags, or fails *)

MaxFlags == 3       \* flags the provider holds, at most

\* an enabled flag without conditions under each id; ids may repeat
ProvidedFlags ==
    {[ID |-> id, Enabled |-> TRUE, Conditions |-> Nil,
      Variants |-> <<>>, Allocation |-> Nil, Telemetry |-> Nil] :
        id \in {"Alpha", "Beta", FeatureID}}

InitProvider ==
    /\ featureFlags \in SeqsUpTo(ProvidedFlags, MaxFlags)
    /\ featureFilters = NewFeatureManager(Nil)
    /\ onFeatureEvaluated = <<>>
    /\ now = 0
    /\ ret = NoReturn
    /\ trace = NoTrace

NextProvider ==
    \/ \E failed \in BOOLEAN : GetFeatureNames(GetFeatureFlags(failed))
    \/ \E n \in FeatureNames : IsEnabled(n)

SpecProvider == InitProvider /\ [][NextProvider]_vars

----------------------------------------------------------------------------
(* Two goroutines on one FeatureManager: each is outside a call, or inside  *)
(* IsEnabled between the test of len(fm.onFeatureEvaluated) and the loop    *)
(* over fm.onFeatureEvaluated. Nothing orders the accesses of one goroutine *)
(* and those of the other: the manager has no lock.                         *)

Goroutines == {"g1", "g2"}

Outside == [op |-> "none", seen |-> <<>>, callbacks |-> <<>>]

InitConcurrent ==
    /\ featureFlags \in {<<SoundFlag(TRUE)>>} \cup {<<f>> : f \in TelemetryOffFlags}
    /\ featureFilters = NewFeatureManager(Ptr([Filters |-> <<"CustomFilter">>]))
    /\ onFeatureEvaluated = <<>>
    /\ now = 0
    /\ ret = [g \in Goroutines |-> NoReturn]
    /\ trace = [g \in Goroutines |-> Outside]

\* IsEnabled up to the test of len(fm.onFeatureEvaluated): the test is not
\* reached when the flag's telemetry is off, and the call returns
IsEnabledBegins(g, e) ==
    /\ trace[g].op = "none"
    /\ IF e.err = NoErr /\ ~e.panic
          /\ e.result.Feature.Telemetry # Nil /\ Deref(e.result.Feature.Telemetry).Enabled
       THEN /\ trace' = [trace EXCEPT ![g] = [op |-> "IsEnabled", seen |-> onFeatureEvaluated,
                                              callbacks |-> <<>>]]
            /\ ret' = [ret EXCEPT ![g] = NoReturn]
       ELSE /\ trace' = [trace EXCEPT ![g] = Outside]
            /\ ret' = [ret EXCEPT ![g] = returnEvaluation(NoTrace,
                                             GetFeatureFlag(FeatureID), e).ret]
    /\ UNCHANGED <<featureFlags, featureFilters, onFeatureEvaluated, now>>

\* the loop over fm.onFeatureEvaluated, entered when the test saw a callback,
\* and the return. The loop reads the slice again: it sees the slice as it is
\* now, and when another goroutine has written it since the test it may also
\* see the slice of the test ("stale") or a slice header written in part
\* ("torn"), which ends the call in a panic
IsEnabledEnds(g, e, read) ==
    /\ trace[g].op = "IsEnabled"
    /\ read # "current" => (trace[g].seen # <<>> /\ onFeatureEvaluated # trace[g].seen)
    /\ trace' = [trace EXCEPT ![g] =
                    [Outside EXCEPT !.callbacks =
                        IF trace[g].seen = <<>> \/ read = "torn" THEN <<>>
                        ELSE IF read = "stale" THEN trace[g].seen
                        ELSE onFeatureEvaluated]]
    /\ ret' = [ret EXCEPT ![g] = IF read = "torn" THEN [NoReturn EXCEPT !.panic = TRUE]
                                 ELSE returnEvaluation(NoTrace,
                                          GetFeatureFlag(FeatureID), e).ret]
    /\ UNCHANGED <<featureFlags, featureFilters, onFeatureEvaluated, now>>

\* OnFeatureEvaluated with a callback that is not nil, by a goroutine outside a call
OnFeatureEvaluatedBy(g, callback) ==
    /\ trace[g].op = "none"
    /\ Len(onFeatureEvaluated) < MaxCallbacks
    /\ onFeatureEvaluated' = Append(onFeatureEvaluated, callback)
    /\ UNCHANGED <<featureFlags, featureFilters, now, ret, trace>>

NextConcurrent ==
    \/ \E g \in Goroutines :
          IsEnabledBegins(g, evaluateProvided(GetFeatureFlag(FeatureID), NilContext))
    \/ \E g \in Goroutines, read \in {"current", "stale", "torn"} :
          IsEnabledEnds(g, evaluateProvided(GetFeatureFlag(FeatureID), NilContext), read)
    \/ \E g \in Goroutines, cb \in Callbacks : OnFeatureEvaluatedBy(g, cb)

SpecConcurrent == InitConcurrent /\ [][NextConcurrent]_vars

----------------------------------------------------------------------------
(* providers/azappconfig: the provider over Azure App Configuration. Two     *)
(* goroutines read through GetFeatureFlags and GetFeatureFlag while the      *)
(* refresh callback replaces provider.featureFlags. trace holds the RWMutex  *)
(* (mu), the position of the callback (refresh) and of each reader (reads)   *)

\* the flag sets the configuration may decode to
AzureFlagSets ==
    {<<SoundFlag(TRUE), [SoundFlag(TRUE) EXCEPT !.ID = "Beta"]>>,
     <<SoundFlag(FALSE)>>,
     <<>>}

AzureFlagIDs == {FeatureID, "Beta"}

NotReading == [op |-> "none", id |-> "", locked |-> <<>>]

InitAzure ==
    /\ featureFlags \in AzureFlagSets
    /\ featureFilters = NewFeatureManager(Nil)
    /\ onFeatureEvaluated = <<>>
    /\ now = 0
    /\ ret = [g \in Goroutines |-> [flags |-> Nil, flag |-> Nil, err |-> NoErr]]
    /\ trace = [mu |-> [writer |-> FALSE, readers |-> {}],
                refresh |-> [pc |-> "idle", updated |-> <<>>, last |-> "none"],
                reads |-> [g \in Goroutines |-> NotReading]]

\* a read lock that does not wait for the writer
RLockNeverWaits(mu) == TRUE

\* mu.RLock() returns when no writer holds the lock
RLockFree(mu) == ~mu.writer

\* mu.Lock() returns when nobody holds the lock
LockFree(mu) == ~mu.writer /\ mu.readers = {}

\* what the body of GetFeatureFlags or GetFeatureFlag returns for the slice
\* it read from provider.featureFlags
providerReturn(op, id, flags) ==
    IF op = "GetFeatureFlags"
    THEN [flags |-> Ptr(flags), flag |-> Nil, err |-> NoErr]
    ELSE LET idx == {i \in 1..Len(flags) : flags[i].ID = id}
         IN IF idx = {}
            THEN [flags |-> Nil, flag |-> Nil,
                  err |-> Errorf("feature flag with ID " \o id \o " not found")]
            ELSE [flags |-> Nil, flag |-> Ptr(flags[Min(idx)]), err |-> NoErr]

\* p.mu.RLock() of GetFeatureFlags or GetFeatureFlag(id)
ReadBegins(g, op, id) ==
    /\ trace.reads[g].op = "none"
    /\ RLockFree(trace.mu)
    /\ trace' = [trace EXCEPT !.mu.readers = @ \cup {g},
                              !.reads[g] = [op |-> op, id |-> id, locked |-> featureFlags]]
    /\ UNCHANGED <<featureFlags, featureFilters, onFeatureEvaluated, now, ret>>

\* the read of provider.featureFlags, the return and the deferred RUnlock.
\* While the refresh callback is writing the slice header the read races with
\* it: it may see the slice in place, the new slice, or a header written in
\* part (the array in place with the new, shorter length)
ReadEnds(g, read) ==
    /\ trace.reads[g].op # "none"
    /\ read # "current" => trace.refresh.pc = "writing"
    /\ read = "torn" => Len(trace.refresh.updated) < Len(featureFlags)
    /\ ret' = [ret EXCEPT ![g] =
                  providerReturn(trace.reads[g].op, trace.reads[g].id,
                      IF read = "current" THEN featureFlags
                      ELSE IF read = "new" THEN trace.refresh.updated
                      ELSE SubSeq(featureFlags, 1, Len(trace.refresh.updated)))]
    /\ trace' = [trace EXCEPT !.mu.readers = @ \ {g}, !.reads[g] = NotReading]
    /\ UNCHANGED <<featureFlags, featureFilters, onFeatureEvaluated, now>>

\* the refresh callback up to the lock: azappcfg.Unmarshal fails and the
\* callback logs and returns, or it gives the updated flags
RefreshDecodes(failed, updated) ==
    /\ trace.refresh.pc = "idle"
    /\ trace' = IF failed
                THEN [trace EXCEPT !.refresh.last = "failed"]
                ELSE [trace EXCEPT !.refresh.pc = "decoded", !.refresh.updated = updated]
    /\ UNCHANGED <<featureFlags, featureFilters, onFeatureEvaluated, now, ret>>

\* provider.mu.Lock()
RefreshLock ==
    /\ trace.refresh.pc = "decoded"
    /\ LockFree(trace.mu)
    /\ trace' = [trace EXCEPT !.mu.writer = TRUE, !.refresh.pc = "locked"]
    /\ UNCHANGED <<featureFlags, featureFilters, onFeatureEvaluated, now, ret>>

\* provider.featureFlags = updatedFC.FeatureManagement.FeatureFlags: the
\* first words of the slice header are written
RefreshWrites ==
    /\ trace.refresh.pc = "locked"
    /\ trace' = [trace EXCEPT !.refresh.pc = "writing"]
    /\ UNCHANGED <<featureFlags, featureFilters, onFeatureEvaluated, now, ret>>

\* the assignment completes, and the deferred provider.mu.Unlock()
RefreshUnlock ==
    /\ trace.refresh.pc = "writing"
    /\ featureFlags' = trace.refresh.updated
    /\ trace' = [trace EXCEPT !.mu.writer = FALSE,
                              !.refresh = [pc |-> "idle", updated |-> <<>>, last |-> "ok"]]
    /\ UNCHANGED <<featureFilters, onFeatureEvaluated, now, ret>>

NextAzure ==
    \/ \E g \in Goroutines : ReadBegins(g, "GetFeatureFlags", "")
    \/ \E g \in Goroutines, id \in AzureFlagIDs : ReadBegins(g, "GetFeatureFlag", id)
    \/ \E g \in Goroutines, read \in {"current", "new", "torn"} : ReadEnds(g, read)
    \/ \E failed \in BOOLEAN, updated \in AzureFlagSets : RefreshDecodes(failed, updated)
    \/ RefreshLock
    \/ RefreshWrites
    \/ RefreshUnlock

SpecAzure == InitAzure /\ [][NextAzure]_vars

----------------------------------------------------------------------------
(* What the properties read from the last call *)

\* the last call evaluated a flag the provider returned
Evaluated ==
    /\ trace.op \in {"IsEnabled", "IsEnabledWithAppContext"}
    /\ trace.flag # Nil

\* the last call ran the condition evaluator on the flag
ConditionsEvaluated == Evaluated /\ trace.conditions # Nil

\* the client filters the evaluated flag declares, and its requirement type
DeclaredFilters ==
    IF Deref(trace.flag).Conditions = Nil THEN <<>>
    ELSE Deref(Deref(trace.flag).Conditions).ClientFilters

DeclaredRequirementType ==
    IF Deref(trace.flag).Conditions = Nil THEN ""
    ELSE Deref(Deref(trace.flag).Conditions).RequirementType

Registered(i) == DeclaredFilters[i].Name \in DOMAIN featureFilters

\* what the i-th declared filter returns for the flag and the caller's context
FilterReturn(i) ==
    FilterEvaluate(featureFilters[DeclaredFilters[i].Name],
                   [FeatureName |-> Deref(trace.flag).ID,
                    Parameters |-> DeclaredFilters[i].Parameters],
                   trace.appContext)

AllRegisteredWithoutError ==
    \A i \in 1..Len(DeclaredFilters) : Registered(i) /\ FilterReturn(i).err = NoErr

\* the defects of a flag document, as the flag schema lists them
StructurallyInvalid(flag) ==
    \/ flag.ID = ""
    \/ /\ flag.Conditions # Nil
       /\ \/ Deref(flag.Conditions).RequirementType
                \notin {"", RequirementTypeAny, RequirementTypeAll}
          \/ \E i \in 1..Len(Deref(flag.Conditions).ClientFilters) :
                Deref(flag.Conditions).ClientFilters[i].Name = ""
    \/ \E i \in 1..Len(flag.Variants) :
          \/ flag.Variants[i].Name = ""
          \/ flag.Variants[i].StatusOverride
                \notin {"", StatusOverrideNone, StatusOverrideEnabled, StatusOverrideDisabled}
    \/ /\ flag.Allocation # Nil
       /\ \/ \E i \in 1..Len(Deref(flag.Allocation).User) :
                \/ Deref(flag.Allocation).User[i].Variant = ""
                \/ Deref(flag.Allocation).User[i].Users = <<>>
          \/ \E i \in 1..Len(Deref(flag.Allocation).Group) :
                \/ Deref(flag.Allocation).Group[i].Variant = ""
                \/ Deref(flag.Allocation).Group[i].Groups = <<>>
          \/ \E i \in 1..Len(Deref(flag.Allocation).Percentile) :
                \/ Deref(flag.Allocation).Percentile[i].Variant = ""
                \/ Deref(flag.Allocation).Percentile[i].From \notin 0..100
                \/ Deref(flag.Allocation).Percentile[i].To \notin 0..100

----------------------------------------------------------------------------
(* Requirement types *)

\* C1: for an enabled flag with requirement type All and a non-empty filter
\* list whose filters are all registered and all return without error, the
\* condition evaluator returns true exactly when every declared filter returns
\* true, so one filter returning false makes the result false.
C1_AllRequiresEveryFilter ==
    (/\ ConditionsEvaluated
     /\ Deref(trace.flag).Enabled
     /\ DeclaredRequirementType = RequirementTypeAll
     /\ Len(DeclaredFilters) > 0
     /\ AllRegisteredWithoutError)
    => /\ Deref(trace.conditions).err = NoErr
       /\ Deref(trace.conditions).ok
             <=> \A i \in 1..Len(DeclaredFilters) : FilterReturn(i).ok

\* C1, its case: an All flag whose first filter returns true and whose second
\* returns false has been evaluated, and the evaluator answered false.
C1_Witness ==
    /\ ConditionsEvaluated
    /\ Deref(trace.flag).Enabled
    /\ DeclaredRequirementType = RequirementTypeAll
    /\ Len(DeclaredFilters) = 2
    /\ AllRegisteredWithoutError
    /\ FilterReturn(1).ok
    /\ ~FilterReturn(2).ok
    /\ ~Deref(trace.conditions).ok

\* C2: for an enabled flag with requirement type Any, or none, and a non-empty
\* filter list whose filters are all registered and all return without error,
\* the condition evaluator returns true exactly when at least one declared
\* filter returns true.
C2_AnyRequiresOneFilter ==
    (/\ ConditionsEvaluated
     /\ Deref(trace.flag).Enabled
     /\ DeclaredRequirementType \in {"", RequirementTypeAny}
     /\ Len(DeclaredFilters) > 0
     /\ AllRegisteredWithoutError)
    => /\ Deref(trace.conditions).err = NoErr
       /\ Deref(trace.conditions).ok
             <=> \E i \in 1..Len(DeclaredFilters) : FilterReturn(i).ok

\* C2, its case: a flag with no requirement type whose first filter returns
\* false and whose second returns true has been evaluated, and the evaluator
\* answered true.
C2_Witness ==
    /\ ConditionsEvaluated
    /\ Deref(trace.flag).Enabled
    /\ DeclaredRequirementType = ""
    /\ Len(DeclaredFilters) = 2
    /\ AllRegisteredWithoutError
    /\ ~FilterReturn(1).ok
    /\ FilterReturn(2).ok
    /\ Deref(trace.conditions).ok

----------------------------------------------------------------------------
(* Flags without a decision to make *)

\* C3: evaluating a flag with Enabled=false invokes no filter and reports
\* false; a valid one yields a result with Enabled=false, and when it declares
\* no variants the result has no variant and reason None.
C3_DisabledFlagStaysDisabled ==
    (Evaluated /\ ~Deref(trace.flag).Enabled)
    => /\ trace.calls = <<>>
       /\ ret.value = FALSE
       /\ ~ret.panic
       /\ ~StructurallyInvalid(Deref(trace.flag))
             => /\ ret.err = NoErr
                /\ trace.result # Nil
       /\ trace.result # Nil
             => /\ ~Deref(trace.result).Enabled
                /\ Deref(trace.flag).Variants = <<>>
                      => /\ Deref(trace.result).Variant = Nil
                         /\ Deref(trace.result).VariantAssignmentReason
                               = VariantAssignmentReasonNone

\* C3, its case: a disabled flag that declares registered filters and no
\* variants has been evaluated.
C3_Witness ==
    /\ Evaluated
    /\ ~Deref(trace.flag).Enabled
    /\ Len(DeclaredFilters) > 0
    /\ \A i \in 1..Len(DeclaredFilters) : Registered(i)
    /\ Deref(trace.flag).Variants = <<>>
    /\ trace.result # Nil

\* C4: for a valid flag with Enabled=true, no variants, and Conditions absent
\* or with an empty filter list, IsEnabled and IsEnabledWithAppContext return
\* true and no error.
C4_EnabledWithoutFilters ==
    (/\ Evaluated
     /\ ~StructurallyInvalid(Deref(trace.flag))
     /\ Deref(trace.flag).Enabled
     /\ Len(DeclaredFilters) = 0
     /\ Deref(trace.flag).Variants = <<>>)
    => ret = [NoReturn EXCEPT !.value = TRUE]

\* C4, its case: an enabled flag whose Conditions are present with an empty
\* filter list has been evaluated.
C4_Witness ==
    /\ Evaluated
    /\ ~StructurallyInvalid(Deref(trace.flag))
    /\ Deref(trace.flag).Enabled
    /\ Deref(trace.flag).Conditions # Nil
    /\ Len(DeclaredFilters) = 0
    /\ Deref(trace.flag).Variants = <<>>
    /\ ret.value

----------------------------------------------------------------------------
(* Filters that are missing or fail *)

\* the declared filters whose name the registry does not hold
Unregistered == {i \in 1..Len(DeclaredFilters) : ~Registered(i)}

\* the value that ends the loop early: true under Any, false under All
ShortCircuitValue == DeclaredRequirementType \in {"", RequirementTypeAny}

\* the loop reaches the first unregistered filter: no filter declared before
\* it fails or returns the short-circuit value
ReachesUnregistered ==
    /\ Unregistered # {}
    /\ \A j \in 1..(Min(Unregistered) - 1) :
          /\ FilterReturn(j).err = NoErr
          /\ FilterReturn(j).ok # ShortCircuitValue

\* the DefaultWhenDisabled variant of the flag overrides the status to Enabled
DefaultWhenDisabledEnables(flag) ==
    /\ flag.Allocation # Nil
    /\ \E i \in 1..Len(flag.Variants) :
          /\ flag.Variants[i].Name = Deref(flag.Allocation).DefaultWhenDisabled
          /\ flag.Variants[i].Name # ""
          /\ flag.Variants[i].StatusOverride = StatusOverrideEnabled
          /\ \A j \in 1..(i - 1) : flag.Variants[j].Name # flag.Variants[i].Name

FailedCalls == {k \in 1..Len(trace.calls) : trace.calls[k].err # NoErr}

\* err wraps inner: inner is the end of its chain
Wraps(err, inner) ==
    /\ Len(err) > Len(inner)
    /\ SubSeq(err, Len(err) - Len(inner) + 1, Len(err)) = inner

\* C6: when a filter invoked during an evaluation returns an error, the call
\* returns false with an error that wraps the filter's, no later declared
\* filter is invoked, no variant is assigned and no callback is invoked.
C6_FilterErrorAborts ==
    (Evaluated /\ FailedCalls # {})
    => /\ ret.value = FALSE
       /\ ret.err # NoErr
       /\ ~ret.panic
       /\ FailedCalls = {Len(trace.calls)}
       /\ \A k \in 1..Len(trace.calls) : trace.calls[k].index = k
       /\ Wraps(ret.err, trace.calls[Len(trace.calls)].err)
       /\ trace.result = Nil
       /\ trace.callbacks = <<>>

\* C6, its case: a flag with telemetry, variants and two filters has been
\* evaluated with a callback registered, and its first filter failed.
C6_Witness ==
    /\ Evaluated
    /\ Len(DeclaredFilters) = 2
    /\ FailedCalls = {1}
    /\ Deref(trace.flag).Telemetry # Nil
    /\ Len(Deref(trace.flag).Variants) > 0
    /\ Len(onFeatureEvaluated) > 0

\* C7: evaluating a structurally invalid flag returns an error (and false)
\* before any filter is invoked and without invoking a callback, whether the
\* flag is marked enabled or not.
C7_InvalidFlagIsRejected ==
    (Evaluated /\ StructurallyInvalid(Deref(trace.flag)))
    => /\ ret.value = FALSE
       /\ ret.err # NoErr
       /\ ~ret.panic
       /\ trace.conditions = Nil
       /\ trace.calls = <<>>
       /\ trace.result = Nil
       /\ trace.callbacks = <<>>

\* C7, its case: a flag with Enabled=false, telemetry and a percentile
\* allocation whose To is above 100 has been evaluated with a callback
\* registered.
C7_Witness ==
    /\ Evaluated
    /\ ~Deref(trace.flag).Enabled
    /\ Deref(trace.flag).Allocation # Nil
    /\ \E i \in 1..Len(Deref(Deref(trace.flag).Allocation).Percentile) :
          Deref(Deref(trace.flag).Allocation).Percentile[i].To > 100
    /\ Deref(trace.flag).Telemetry # Nil
    /\ Len(onFeatureEvaluated) > 0
    /\ ret.err # NoErr

----------------------------------------------------------------------------
(* The targeting filter *)

\* the calls of the last evaluation that invoked the targeting filter
TargetingCalls ==
    {k \in 1..Len(trace.calls) : trace.calls[k].Name = "Microsoft.Targeting"}

\* the audience the k-th call's filter was given
CalledAudience(k) ==
    decodeTargetingParams(DeclaredFilters[trace.calls[k].index].Parameters).Audience

\* the caller's context is in the exclusion lists of the audience
Excluded(appContext, audience) ==
    /\ audience.Exclusion # Nil
    /\ \/ /\ appContext.UserID # ""
          /\ appContext.UserID \in Range(Deref(audience.Exclusion).Users)
       \/ Range(appContext.Groups) \cap Range(Deref(audience.Exclusion).Groups) # {}

PercentagesInRange(audience) ==
    /\ audience.DefaultRolloutPercentage \in 0..100
    /\ \A i \in 1..Len(audience.Groups) : audience.Groups[i].RolloutPercentage \in 0..100

\* C8 as stated: the targeting filter answers false, without an error, for
\* every context that is in the exclusion lists.
C8_ExcludedIsRejectedWithoutError ==
    \A k \in TargetingCalls :
        Excluded(trace.appContext, CalledAudience(k))
        => /\ trace.calls[k].ok = FALSE
           /\ trace.calls[k].err = NoErr

\* C8 amended: the targeting filter never accepts a context that is in the
\* exclusion lists, also when the context is in the user list, in a group
\* rolled out to 100% or under a default rollout of 100: it answers false, and
\* without an error exactly when every rollout percentage of the audience is
\* within [0,100] and the context is a TargetingContext value.
C8_ExcludedIsNeverAccepted ==
    \A k \in TargetingCalls :
        Excluded(trace.appContext, CalledAudience(k))
        => /\ trace.calls[k].ok = FALSE
           /\ ret.value = FALSE
           /\ trace.calls[k].err = NoErr
                 <=> /\ PercentagesInRange(CalledAudience(k))
                     /\ trace.appContext.kind = "TargetingContext"

\* C8, its case: the filter has answered, without an error, for a context
\* whose user is both excluded and in the user list and whose excluded group
\* is rolled out to 100%, under a default rollout of 100.
C8_Witness ==
    \E k \in TargetingCalls :
        /\ Excluded(trace.appContext, CalledAudience(k))
        /\ trace.appContext.UserID \in Range(CalledAudience(k).Users)
        /\ \E i \in 1..Len(CalledAudience(k).Groups) :
              /\ CalledAudience(k).Groups[i].Name \in Range(trace.appContext.Groups)
              /\ CalledAudience(k).Groups[i].RolloutPercentage = 100
        /\ CalledAudience(k).DefaultRolloutPercentage = 100
        /\ trace.calls[k].err = NoErr
        /\ ~trace.calls[k].ok

\* C9: the targeting filter returns an error whenever the default rollout
\* percentage or a group's rollout percentage of the audience is outside
\* [0,100], whatever the caller's context, and the call fails with it.
C9_PercentageOutOfRangeIsAnError ==
    \A k \in TargetingCalls :
        ~PercentagesInRange(CalledAudience(k))
        => /\ trace.calls[k].err # NoErr
           /\ trace.calls[k].ok = FALSE
           /\ ret.value = FALSE
           /\ Wraps(ret.err, trace.calls[k].err)

\* C9, its case: the filter has been given an audience whose default rollout
\* is in range and one of whose groups is not, for an excluded context that is
\* also in the user list.
C9_Witness ==
    \E k \in TargetingCalls :
        /\ CalledAudience(k).DefaultRolloutPercentage \in 0..100
        /\ ~PercentagesInRange(CalledAudience(k))
        /\ trace.appContext.kind = "TargetingContext"
        /\ Excluded(trace.appContext, CalledAudience(k))
        /\ trace.appContext.UserID \in Range(CalledAudience(k).Users)
        /\ trace.calls[k].err # NoErr

\* C10: the targeting filter returns an error whenever the caller's context
\* is nil or of another type, so an IsEnabled call whose evaluation invokes
\* the Microsoft.Targeting filter returns false with an error.
C10_TargetingNeedsContext ==
    /\ \A k \in TargetingCalls :
          trace.appContext.kind \in {"nil", "string"}
          => /\ trace.calls[k].err # NoErr
             /\ trace.calls[k].ok = FALSE
    /\ (trace.op = "IsEnabled" /\ TargetingCalls # {})
          => /\ ret.value = FALSE
             /\ ret.err # NoErr
             /\ \A k \in TargetingCalls : Wraps(ret.err, trace.calls[k].err)

\* C10, its case: IsEnabled has evaluated an enabled flag whose first filter
\* returned false and whose second filter is Microsoft.Targeting, with valid
\* parameters.
C10_Witness ==
    /\ trace.op = "IsEnabled"
    /\ Len(trace.calls) = 2
    /\ TargetingCalls = {2}
    /\ PercentagesInRange(CalledAudience(2))
    /\ ret.err # NoErr

----------------------------------------------------------------------------
(* The time window filter *)

\* the calls of the last evaluation that invoked the time window filter
TimeWindowCalls ==
    {k \in 1..Len(trace.calls) : trace.calls[k].Name = "Microsoft.TimeWindow"}

\* the bounds the k-th call's filter was given
CalledStart(k) == DeclaredFilters[trace.calls[k].index].Parameters.Start

CalledEnd(k) == DeclaredFilters[trace.calls[k].index].Parameters.End

\* a bound is absent or a time
BoundParses(timeStr) == timeStr = "" \/ parseTime(timeStr).err = NoErr

\* C12: for bounds that are absent or parse, the time window filter returns no
\* error, and returns true exactly when at least one bound is present, the
\* current time is at or after start when start is present, and strictly
\* before end when end is present; so with neither bound it returns false
\* without an error, and the caller's context makes no difference.
C12_TimeWindowIsHalfOpen ==
    \A k \in TimeWindowCalls :
        (BoundParses(CalledStart(k)) /\ BoundParses(CalledEnd(k)))
        => /\ trace.calls[k].err = NoErr
           /\ trace.calls[k].ok
                 <=> /\ CalledStart(k) # "" \/ CalledEnd(k) # ""
                     /\ CalledStart(k) # "" => now >= parseTime(CalledStart(k)).t
                     /\ CalledEnd(k) # "" => now < parseTime(CalledEnd(k)).t

\* C12, its case: the filter has been called with a targeting context at the
\* very time of its start bound, before its end bound, and answered true.
C12_Witness ==
    \E k \in TimeWindowCalls :
        /\ trace.appContext.kind = "TargetingContext"
        /\ CalledStart(k) # ""
        /\ CalledEnd(k) # ""
        /\ BoundParses(CalledStart(k))
        /\ BoundParses(CalledEnd(k))
        /\ now = parseTime(CalledStart(k)).t
        /\ trace.calls[k].ok

----------------------------------------------------------------------------
(* C13: the default variant of the computed state *)

\* the last call returned a result for a flag that declares variants
VariantResult ==
    /\ Evaluated
    /\ trace.result # Nil
    /\ Len(Deref(trace.flag).Variants) > 0

\* the verdict of the condition evaluator in the last call
ComputedEnabled == Deref(trace.conditions).ok

\* an entry of the flag's allocation names the user, one of the groups, or a
\* range holding the bucket of a context handed over as a *TargetingContext
AllocationMatches(flag, appContext) ==
    /\ appContext.kind = "*TargetingContext"
    /\ flag.Allocation # Nil
    /\ \/ \E i \in 1..Len(Deref(flag.Allocation).User) :
              appContext.UserID \in Range(Deref(flag.Allocation).User[i].Users)
       \/ \E i \in 1..Len(Deref(flag.Allocation).Group) :
              Range(appContext.Groups) \cap Range(Deref(flag.Allocation).Group[i].Groups) # {}
       \/ \E i \in 1..Len(Deref(flag.Allocation).Percentile) :
              isTargetedPercentile(appContext.UserID,
                                   IF Deref(flag.Allocation).Seed = ""
                                   THEN "allocation\n" \o flag.ID
                                   ELSE Deref(flag.Allocation).Seed,
                                   Deref(flag.Allocation).Percentile[i].From,
                                   Deref(flag.Allocation).Percentile[i].To).ok

\* the name the allocation gives the default variant of a state
DefaultName(flag, enabled) ==
    IF flag.Allocation = Nil THEN ""
    ELSE IF enabled THEN Deref(flag.Allocation).DefaultWhenEnabled
    ELSE Deref(flag.Allocation).DefaultWhenDisabled

\* the variants a result may carry for a name: those the flag declares under it
DeclaredAs(flag, name) ==
    {Ptr([Name |-> flag.Variants[i].Name,
          ConfigurationValue |-> flag.Variants[i].ConfigurationValue]) :
        i \in {j \in 1..Len(flag.Variants) : flag.Variants[j].Name = name}}

\* the result carries the variant the name declares, and none when it declares none
CarriesVariantNamed(result, flag, name) ==
    IF name = "" \/ DeclaredAs(flag, name) = {}
    THEN result.Variant = Nil
    ELSE result.Variant \in DeclaredAs(flag, name)

\* C13: a result for a flag with variants carries the DefaultWhenDisabled
\* variant with reason DefaultWhenDisabled when the conditions came out
\* disabled, and the DefaultWhenEnabled variant with reason DefaultWhenEnabled
\* when they came out enabled and no allocation entry matches the context (no
\* targeting context counts as no match)
C13_DefaultVariantForComputedState ==
    VariantResult =>
        /\ ~ComputedEnabled =>
              /\ Deref(trace.result).VariantAssignmentReason
                    = VariantAssignmentReasonDefaultWhenDisabled
              /\ CarriesVariantNamed(Deref(trace.result), Deref(trace.flag),
                                     DefaultName(Deref(trace.flag), FALSE))
        /\ (ComputedEnabled /\ ~AllocationMatches(Deref(trace.flag), trace.appContext)) =>
              /\ Deref(trace.result).VariantAssignmentReason
                    = VariantAssignmentReasonDefaultWhenEnabled
              /\ CarriesVariantNamed(Deref(trace.result), Deref(trace.flag),
                                     DefaultName(Deref(trace.flag), TRUE))

\* C13 witness: a disabled flag whose allocation has an entry of every class
\* and both defaults was evaluated for Alice, and the result carries the
\* DefaultWhenDisabled variant
C13_Witness ==
    /\ VariantResult
    /\ ~Deref(trace.flag).Enabled
    /\ trace.appContext = TargetingContextPointer("Alice", <<>>)
    /\ Deref(trace.flag).Allocation # Nil
    /\ Deref(Deref(trace.flag).Allocation).User # <<>>
    /\ Deref(Deref(trace.flag).Allocation).DefaultWhenDisabled = "Medium"
    /\ Deref(Deref(trace.flag).Allocation).DefaultWhenEnabled = "Big"
    /\ Deref(trace.result).Variant = Ptr([Name |-> "Medium", ConfigurationValue |-> "450px"])
    /\ Deref(trace.result).VariantAssignmentReason = VariantAssignmentReasonDefaultWhenDisabled

----------------------------------------------------------------------------
(* C14, C15: the status override of the selected variant *)

\* the status overrides the flag declares for the variant the result carries
SelectedOverrides(flag, result) ==
    IF result.Variant = Nil THEN {}
    ELSE {flag.Variants[i].StatusOverride :
             i \in {j \in 1..Len(flag.Variants) :
                       flag.Variants[j].Name = Deref(result.Variant).Name}}

\* C14: when the conditions of a flag come out enabled, the call returns
\* false if the selected variant's status override is Disabled, true if it is
\* Enabled, and true (the computed value) if it is None or no variant is selected
C14_OverrideOfEnabledEvaluation ==
    (Evaluated /\ trace.result # Nil /\ ComputedEnabled) =>
        /\ ret.err = NoErr
        /\ ret.value = Deref(trace.result).Enabled
        /\ ret.value = (StatusOverrideDisabled
                            \notin SelectedOverrides(Deref(trace.flag), Deref(trace.result)))

\* C14 witness: the filter accepted, the user allocation gave Alice the variant
\* whose status override is Disabled, and the call returned false
C14_Witness ==
    /\ Evaluated
    /\ trace.result # Nil
    /\ ComputedEnabled
    /\ Len(trace.calls) = 1
    /\ trace.appContext = TargetingContextPointer("Alice", <<>>)
    /\ Deref(trace.result).VariantAssignmentReason = VariantAssignmentReasonUser
    /\ SelectedOverrides(Deref(trace.flag), Deref(trace.result)) = {StatusOverrideDisabled}
    /\ ret.value = FALSE

\* C15: whenever the conditions come out disabled (the flag is marked
\* disabled, a filter decided false, or a filter is not registered), the call
\* returns false whatever the status override of the DefaultWhenDisabled variant
C15_OverrideOnlyOnEnabledEvaluation ==
    (Evaluated /\ trace.result # Nil /\ ~ComputedEnabled) =>
        /\ ret.value = FALSE
        /\ ~Deref(trace.result).Enabled

----------------------------------------------------------------------------
(* C11: the range of the percentile bucket *)

\* the last call hashed its context
Hashed == trace.op = "isTargetedPercentile" /\ trace.contextMarker # Nil

\* C11 as stated: the bucket of every hashed context is at least 0 and
\* strictly less than 100
C11_BucketBelowHundred ==
    Hashed =>
        /\ contextPercentageAtLeast(Deref(trace.contextMarker), 0)
        /\ ~contextPercentageAtLeast(Deref(trace.contextMarker), 100)

\* C11 amended: the bucket of every hashed context is at least 0 and at most
\* 100, and it reaches 100 exactly when the marker is math.MaxUint32; a range
\* that starts at 100 then accepts that context and no other
C11_BucketAtMostHundred ==
    Hashed =>
        /\ contextPercentageAtLeast(Deref(trace.contextMarker), 0)
        /\ ~contextPercentageAtLeast(Deref(trace.contextMarker), 101)
        /\ contextPercentageAtLeast(Deref(trace.contextMarker), 100)
              <=> Deref(trace.contextMarker) = [hi |-> MaxUint32Hi, lo |-> MaxUint32Lo]
        /\ (trace.from = 100 /\ trace.to = 100)
              => (ret.value
                    <=> Deref(trace.contextMarker) = [hi |-> MaxUint32Hi, lo |-> MaxUint32Lo])

\* C11 witness: the digest of a context starts with four bytes 255, and the
\* range from 100 to 100 accepts it
C11_Witness ==
    /\ Hashed
    /\ trace.userID = "user2011583494"
    /\ trace.hint = "ComplexTargeting"
    /\ Deref(trace.contextMarker) = [hi |-> 65535, lo |-> 65535]
    /\ trace.from = 100
    /\ trace.to = 100
    /\ ret.value = TRUE
    /\ ret.err = NoErr

----------------------------------------------------------------------------
(* C16: the callbacks of an evaluation *)

----------------------------------------------------------------------------
(* C17: what IsEnabled and IsEnabledWithAppContext return *)

\* C17: a call of IsEnabled or IsEnabledWithAppContext returns a boolean
\* without an error or false with an error, and nothing else; when the provider
\* does not return the flag it returns false with an error that wraps the
\* provider's and names the feature, and invokes no filter and no callback
C17_BooleanOrError ==
    trace.op \in {"IsEnabled", "IsEnabledWithAppContext"} =>
        /\ ~ret.panic
        /\ ret.err # NoErr => ret.value = FALSE
        /\ trace.flag = Nil =>
              /\ ret.value = FALSE
              /\ ret.err # NoErr
              /\ ret.err[1] = "failed to get feature flag " \o trace.featureName
              /\ Wraps(ret.err, GetFeatureFlag(trace.featureName).err)
              /\ trace.calls = <<>>
              /\ trace.callbacks = <<>>

----------------------------------------------------------------------------
(* C18: the variant GetVariant returns *)

\* C18: GetVariant returns the name and the configuration value of the variant
\* that evaluating the flag for the context selects
C18_GetVariantReturnsSelected ==
    (/\ trace.op = "GetVariant"
     /\ GetFeatureFlag(trace.featureName).err = NoErr
     /\ ~evaluateProvided(GetFeatureFlag(trace.featureName), trace.appContext).panic
     /\ evaluateProvided(GetFeatureFlag(trace.featureName), trace.appContext).err = NoErr
     /\ evaluateProvided(GetFeatureFlag(trace.featureName),
                         trace.appContext).result.Variant # Nil)
        => ret.variant = Deref(evaluateProvided(GetFeatureFlag(trace.featureName),
                                                trace.appContext).result.Variant)

----------------------------------------------------------------------------
(* C19: the names GetFeatureNames returns *)

\* C19: GetFeatureNames returns nil when the provider reports an error, and
\* otherwise the ids of the provider's flags, one for each flag in the
\* provider's order
C19_NamesAreTheProvidedIds ==
    trace.op = "GetFeatureNames" =>
        IF trace.providerErr # NoErr
        THEN ret.names = Nil
        ELSE /\ ret.names # Nil
             /\ Len(Deref(ret.names)) = Len(featureFlags)
             /\ Deref(ret.names) = [i \in 1..Len(featureFlags) |-> featureFlags[i].ID]

----------------------------------------------------------------------------
(* C20: the state the goroutines share *)

\* C20: no step writes the manager's state while a goroutine is inside an
\* evaluation that reads it
C20_NoWriteUnderEvaluation ==
    [][(\E g \in Goroutines : trace[g].op = "IsEnabled")
          => /\ onFeatureEvaluated' = onFeatureEvaluated
             /\ featureFilters' = featureFilters]_vars

----------------------------------------------------------------------------
(* C21, C22: the group step and the default rollout of the targeting filter *)

\* the k-th call got past the parameters, the context, the exclusion lists
\* and the user list: the group step decides, then the default rollout
ReachesGroups(k) ==
    /\ PercentagesInRange(CalledAudience(k))
    /\ trace.appContext.kind = "TargetingContext"
    /\ ~Excluded(trace.appContext, CalledAudience(k))
    /\ ~(trace.appContext.UserID # ""
            /\ trace.appContext.UserID \in Range(CalledAudience(k).Users))

\* the audience groups of the k-th call the context belongs to, and those
\* whose rollout holds the bucket of the context under the group's hint
GroupsOf(k) ==
    {i \in 1..Len(CalledAudience(k).Groups) :
        CalledAudience(k).Groups[i].Name \in Range(trace.appContext.Groups)}

PassingGroupsOf(k) ==
    {i \in GroupsOf(k) :
        \/ CalledAudience(k).Groups[i].RolloutPercentage = 100
        \/ ~contextPercentageAtLeast(
               hashStringToUint32(trace.appContext.UserID \o "\n" \o trace.featureName
                                      \o "\n" \o CalledAudience(k).Groups[i].Name),
               CalledAudience(k).Groups[i].RolloutPercentage)}

\* C21 as stated: the group step ends at the first audience group the context
\* belongs to; when that group's percentile check rejects, no later group
\* accepts the context, and only the default rollout can
C21_FirstGroupDecides ==
    \A k \in TargetingCalls :
        (ReachesGroups(k) /\ GroupsOf(k) # {} /\ Min(GroupsOf(k)) \notin PassingGroupsOf(k))
        => (trace.calls[k].ok
               => \/ CalledAudience(k).DefaultRolloutPercentage = 100
                  \/ ~contextPercentageAtLeast(
                         hashStringToUint32(trace.appContext.UserID \o "\n"
                                                \o trace.featureName),
                         CalledAudience(k).DefaultRolloutPercentage))

\* C21 amended: the group step accepts the context exactly when the
\* percentile check of some audience group the context belongs to passes,
\* whether or not an earlier group the context belongs to rejected it; when
\* none passes, the default rollout decides
C21_FirstPassingGroupDecides ==
    \A k \in TargetingCalls :
        ReachesGroups(k)
        => /\ trace.calls[k].err = NoErr
           /\ PassingGroupsOf(k) # {} => trace.calls[k].ok
           /\ (PassingGroupsOf(k) = {} /\ trace.calls[k].ok)
                 => \/ CalledAudience(k).DefaultRolloutPercentage = 100
                    \/ ~contextPercentageAtLeast(
                           hashStringToUint32(trace.appContext.UserID \o "\n"
                                                  \o trace.featureName),
                           CalledAudience(k).DefaultRolloutPercentage)

\* C21 witness: Dave belongs to two audience groups, the first rejects him at
\* 50%, the second accepts him at 100%, the default rollout is 0, and the
\* filter accepted him
C21_Witness ==
    \E k \in TargetingCalls :
        /\ ReachesGroups(k)
        /\ trace.appContext.UserID = "Dave"
        /\ GroupsOf(k) = {1, 2}
        /\ PassingGroupsOf(k) = {2}
        /\ CalledAudience(k).Groups[1].RolloutPercentage = 50
        /\ CalledAudience(k).DefaultRolloutPercentage = 0
        /\ trace.calls[k].ok
        /\ ret.value = TRUE

\* C22: a context that is not excluded, not in the user list and accepted by
\* no audience group is accepted exactly when the bucket of its user id under
\* the feature name is below the default rollout percentage; a default of 100
\* accepts every such context and a default of 0 none
C22_DefaultRolloutDecides ==
    \A k \in TargetingCalls :
        (ReachesGroups(k) /\ PassingGroupsOf(k) = {})
        => /\ trace.calls[k].err = NoErr
           /\ trace.calls[k].ok
                 <=> \/ CalledAudience(k).DefaultRolloutPercentage = 100
                     \/ ~contextPercentageAtLeast(
                            hashStringToUint32(trace.appContext.UserID \o "\n"
                                                   \o trace.featureName),
                            CalledAudience(k).DefaultRolloutPercentage)
           /\ CalledAudience(k).DefaultRolloutPercentage = 0 => ~trace.calls[k].ok
           /\ ret.value = trace.calls[k].ok

\* C22 witness: Dave belongs to an audience group that rejects him, his
\* bucket under the feature name is above the default rollout of 50, and the
\* filter rejected him without an error
C22_Witness ==
    \E k \in TargetingCalls :
        /\ ReachesGroups(k)
        /\ trace.appContext.UserID = "Dave"
        /\ GroupsOf(k) # {}
        /\ PassingGroupsOf(k) = {}
        /\ CalledAudience(k).DefaultRolloutPercentage = 50
        /\ ~trace.calls[k].ok
        /\ ret.err = NoErr

----------------------------------------------------------------------------
(* C24: the order of the variant allocator *)

\* C24: for a *TargetingContext, an enabled verdict and an allocation, the
\* allocator returns the variant of the first user entry that names the user;
\* when no user entry does, of the first group entry that names one of the
\* groups; when no group entry does, of the first percentile entry whose range
\* holds the bucket; the reason is User, Group or Percentile accordingly, and
\* the result carries that variant and reason. When no entry matches, the
\* allocator returns no variant with reason None
C24_FirstMatchingEntryAssigns ==
    (/\ VariantResult
     /\ ComputedEnabled
     /\ trace.appContext.kind = "*TargetingContext"
     /\ Deref(trace.flag).Allocation # Nil)
    => LET a == Deref(Deref(trace.flag).Allocation)
           U == {i \in 1..Len(a.User) : trace.appContext.UserID \in Range(a.User[i].Users)}
           G == {i \in 1..Len(a.Group) :
                    Range(trace.appContext.Groups) \cap Range(a.Group[i].Groups) # {}}
           P == {i \in 1..Len(a.Percentile) :
                    /\ contextPercentageAtLeast(
                           hashStringToUint32(trace.appContext.UserID \o "\nallocation\n"
                                                  \o Deref(trace.flag).ID),
                           a.Percentile[i].From)
                    /\ \/ a.Percentile[i].To = 100
                       \/ ~contextPercentageAtLeast(
                              hashStringToUint32(trace.appContext.UserID \o "\nallocation\n"
                                                     \o Deref(trace.flag).ID),
                              a.Percentile[i].To)}
           name == IF U # {} THEN a.User[Min(U)].Variant
                   ELSE IF G # {} THEN a.Group[Min(G)].Variant
                   ELSE IF P # {} THEN a.Percentile[Min(P)].Variant
                   ELSE ""
           reason == IF U # {} THEN VariantAssignmentReasonUser
                     ELSE IF G # {} THEN VariantAssignmentReasonGroup
                     ELSE IF P # {} THEN VariantAssignmentReasonPercentile
                     ELSE VariantAssignmentReasonNone
           got == assignVariant(Deref(trace.flag),
                                [UserID |-> trace.appContext.UserID,
                                 Groups |-> trace.appContext.Groups])
       IN /\ got.err = NoErr
          /\ got.assignment # Nil
          /\ Deref(got.assignment).Reason = reason
          /\ IF name = ""
             THEN Deref(got.assignment).Variant = Nil
             ELSE /\ Deref(got.assignment).Variant # Nil
                  /\ Deref(Deref(got.assignment).Variant).Name = name
                  /\ Deref(Deref(got.assignment).Variant) \in Range(Deref(trace.flag).Variants)
                  /\ Deref(trace.result).VariantAssignmentReason = reason
                  /\ CarriesVariantNamed(Deref(trace.result), Deref(trace.flag), name)

\* C24 witness: Dave, in group Stage1, is named by the first of two user
\* entries, by the group entry and by both percentile ranges, and the result
\* carries the variant of the first user entry with reason User
C24_Witness ==
    /\ VariantResult
    /\ ComputedEnabled
    /\ trace.appContext = TargetingContextPointer("Dave", <<"Stage1">>)
    /\ Deref(trace.flag).Allocation # Nil
    /\ Len(Deref(Deref(trace.flag).Allocation).User) = 2
    /\ Len(Deref(Deref(trace.flag).Allocation).Group) = 1
    /\ Len(Deref(Deref(trace.flag).Allocation).Percentile) = 2
    /\ Deref(trace.result).Variant = Ptr([Name |-> "Medium", ConfigurationValue |-> "450px"])
    /\ Deref(trace.result).VariantAssignmentReason = VariantAssignmentReasonUser

----------------------------------------------------------------------------
(* C25: references to a variant the flag does not declare *)

\* the variant name the variant step refers to: the default of the disabled
\* state, the variant of the first matching allocation entry (user, then group,
\* then percentile) of a *TargetingContext, or the default of the enabled state
ReferredName(flag, appContext, enabled) ==
    IF ~enabled \/ ~AllocationMatches(flag, appContext)
    THEN DefaultName(flag, enabled)
    ELSE LET a == Deref(flag.Allocation)
             U == {i \in 1..Len(a.User) : appContext.UserID \in Range(a.User[i].Users)}
             G == {i \in 1..Len(a.Group) :
                      Range(appContext.Groups) \cap Range(a.Group[i].Groups) # {}}
             P == targetedPercentileAllocations(flag, a, appContext)
         IN IF U # {} THEN a.User[Min(U)].Variant
            ELSE IF G # {} THEN a.Group[Min(G)].Variant
            ELSE a.Percentile[Min(P)].Variant

\* C25: when the entry or the default the variant step refers to names a
\* variant the flag does not declare, the call ends without an error and
\* without a panic, and its result carries no variant
C25_UndeclaredVariantIsNoVariant ==
    (/\ trace.op \in {"IsEnabled", "IsEnabledWithAppContext"}
     /\ trace.flag # Nil
     /\ trace.conditions # Nil
     /\ Deref(trace.conditions).err = NoErr
     /\ Len(Deref(trace.flag).Variants) > 0
     /\ ReferredName(Deref(trace.flag), trace.appContext, ComputedEnabled) # ""
     /\ DeclaredAs(Deref(trace.flag),
                   ReferredName(Deref(trace.flag), trace.appContext, ComputedEnabled)) = {})
    => /\ ~ret.panic
       /\ ret.err = NoErr
       /\ trace.result # Nil
       /\ Deref(trace.result).Variant = Nil

----------------------------------------------------------------------------
(* C23: the edges of the percentile range *)

\* the bucket of the marker is exactly p: marker * 100 = p * math.MaxUint32,
\* which has solutions only for the multiples of 20, at p / 20 * 0x33333333
BucketEquals(contextMarker, p) ==
    /\ p % 20 = 0
    /\ contextMarker = [hi |-> (p \div 20) * 13107, lo |-> (p \div 20) * 13107]

----------------------------------------------------------------------------
(* C26: a percentile range that ends before it starts *)

\* C26: a call that evaluates a flag whose allocation has a percentile entry
\* with from > to, both within 0..100, returns an error
C26_InvertedRangeIsAnError ==
    (/\ trace.op \in {"IsEnabled", "IsEnabledWithAppContext"}
     /\ trace.flag # Nil
     /\ Deref(trace.flag).Allocation # Nil
     /\ \E i \in 1..Len(Deref(Deref(trace.flag).Allocation).Percentile) :
           /\ Deref(Deref(trace.flag).Allocation).Percentile[i].From \in 0..100
           /\ Deref(Deref(trace.flag).Allocation).Percentile[i].To \in 0..100
           /\ Deref(Deref(trace.flag).Allocation).Percentile[i].From
                 > Deref(Deref(trace.flag).Allocation).Percentile[i].To)
    => ret.err # NoErr

----------------------------------------------------------------------------
(* C27: what an evaluation leaves alone *)

\* C27: a call of IsEnabled or IsEnabledWithAppContext, whether it returns a
\* value, an error or ends in a panic, leaves the provider's flags, the filter
\* registry and the list of callbacks as they were
C27_EvaluationLeavesInputsUnchanged ==
    [][trace'.op \in {"IsEnabled", "IsEnabledWithAppContext"} =>
          /\ featureFlags' = featureFlags
          /\ featureFilters' = featureFilters
          /\ onFeatureEvaluated' = onFeatureEvaluated]_vars

\* C27 witness: an evaluation ran a filter and invoked two callbacks, and the
\* flag it evaluated is still the provider's and both callbacks are still
\* registered
C27_Witness ==
    /\ trace.op = "IsEnabledWithAppContext"
    /\ trace.result # Nil
    /\ Len(trace.calls) > 0
    /\ Len(trace.callbacks) = 2
    /\ Len(onFeatureEvaluated) = 2
    /\ featureFlags = <<Deref(trace.flag)>>
    /\ featureFilters # <<>>

----------------------------------------------------------------------------
(* C28: the caller context of the targeting filter and of the allocator *)

\* C28: when an evaluation invoked the targeting filter and the filter took
\* the caller's context as a targeting context (it returned no error), the
\* result records the context's user id as its TargetingID, and when the
\* conditions came out enabled and an allocation entry of the flag matches
\* the context, the result's variant is assigned by that allocation (reason
\* User, Group or Percentile)
C28_FilterAndAllocatorAgree ==
    (/\ trace.op = "IsEnabledWithAppContext"
     /\ trace.result # Nil
     /\ TargetingCalls # {}
     /\ \A k \in TargetingCalls : trace.calls[k].err = NoErr)
    => /\ Deref(trace.result).TargetingID = trace.appContext.UserID
       /\ (/\ ComputedEnabled
           /\ Len(Deref(trace.flag).Variants) > 0
           /\ AllocationMatches(Deref(trace.flag),
                                [trace.appContext EXCEPT !.kind = "*TargetingContext"]))
          => Deref(trace.result).VariantAssignmentReason
                \in {VariantAssignmentReasonUser, VariantAssignmentReasonGroup,
                     VariantAssignmentReasonPercentile}

----------------------------------------------------------------------------
(* C29: the variant and the reason of a result *)

\* C29: in every result returned without an error, a flag that declares no
\* variants gives no variant and reason None; a variant that is present has
\* the name and the configuration value of a variant the flag declares and a
\* reason other than None; and the reason is User, Group or Percentile only
\* when a variant is present
C29_VariantAndReasonAgree ==
    (Evaluated /\ trace.result # Nil) =>
        /\ Len(Deref(trace.flag).Variants) = 0 =>
              /\ Deref(trace.result).Variant = Nil
              /\ Deref(trace.result).VariantAssignmentReason = VariantAssignmentReasonNone
        /\ Deref(trace.result).Variant # Nil =>
              /\ \E i \in 1..Len(Deref(trace.flag).Variants) :
                    /\ Deref(trace.flag).Variants[i].Name
                          = Deref(Deref(trace.result).Variant).Name
                    /\ Deref(trace.flag).Variants[i].ConfigurationValue
                          = Deref(Deref(trace.result).Variant).ConfigurationValue
              /\ Deref(trace.result).VariantAssignmentReason # VariantAssignmentReasonNone
        /\ Deref(trace.result).VariantAssignmentReason
              \in {VariantAssignmentReasonUser, VariantAssignmentReasonGroup,
                   VariantAssignmentReasonPercentile}
           => Deref(trace.result).Variant # Nil

\* C29 witness: a flag that declares no variants and whose allocation names
\* variants for Alice and for both states was evaluated for Alice, enabled,
\* and the result carries no variant and reason None
C29_Witness ==
    /\ Evaluated
    /\ trace.result # Nil
    /\ Deref(trace.flag).Variants = <<>>
    /\ Deref(trace.flag).Allocation # Nil
    /\ trace.appContext = TargetingContextPointer("Alice", <<>>)
    /\ ComputedEnabled
    /\ Deref(trace.result).Variant = Nil
    /\ Deref(trace.result).VariantAssignmentReason = VariantAssignmentReasonNone

----------------------------------------------------------------------------
(* C30: reads and refreshes of the Azure App Configuration provider *)

\* C30: the flag set changes only in the refresh callback's assignment, with
\* the write lock held and no reader inside a read, and it becomes the decoded
\* set as a whole; a refresh whose decoding fails changes neither the flag
\* set nor the lock; and a read returns what its method gives for the one
\* flag set the provider held from the read's RLock to its return
C30_ReadsSeeOneFlagSet ==
    [][/\ featureFlags' # featureFlags =>
             /\ trace.mu.writer
             /\ trace.mu.readers = {}
             /\ featureFlags' = trace.refresh.updated
       /\ (trace.refresh.pc = "idle" /\ trace'.refresh.pc = "idle") =>
             /\ featureFlags' = featureFlags
             /\ trace'.mu.writer = trace.mu.writer
       /\ \A g \in Goroutines :
             (trace.reads[g].op # "none" /\ trace'.reads[g].op = "none") =>
                /\ trace.reads[g].locked = featureFlags
                /\ ret'[g] = providerReturn(trace.reads[g].op, trace.reads[g].id,
                                            trace.reads[g].locked)]_vars

\* C30 witness: a refresh has replaced a set of two flags by a set of one;
\* GetFeatureFlag had returned a flag of the old set to one goroutine before
\* it, GetFeatureFlags returned the new set to the other after it, and the
\* next refresh has decoded and waits for a goroutine that holds the read lock
C30_Witness ==
    /\ trace.refresh.last = "ok"
    /\ featureFlags = <<SoundFlag(FALSE)>>
    /\ ret["g1"].flags = Ptr(<<SoundFlag(FALSE)>>)
    /\ ret["g2"].flag = Ptr([SoundFlag(TRUE) EXCEPT !.ID = "Beta"])
    /\ trace.refresh.pc = "decoded"
    /\ trace.mu.readers = {"g2"}

====
